---- MODULE Spec2Model ----
(***************************************************************************)
(* A model of the tree-walking emitter of regexp2cg (convert_execute.go).  *)
(*                                                                         *)
(* The emitter walks a regex node tree once and writes one Execute         *)
(* procedure.  The model keeps the emitter's state (output sink, scratch   *)
(* buffer, late declarations, name table, doneLabel, sliceStaticPos, the   *)
(* label lists and the node tree) in the record `em`; every Go function    *)
(* of the emitter is an operator of the same name that takes the state     *)
(* and returns the state after the call.  Emitted source lines are         *)
(* records, one per statement or condition fragment.  Blank output lines   *)
(* are not modelled.                                                       *)
(***************************************************************************)
EXTENDS Integers, Sequences, FiniteSets, TLC

\* em: the converter and the regexpData it emits for;
\* pc: "constructed" before emitExecute is called, "returned" after it
\*     returned, "panicked" after it unwound with a panic.
\* calls: how many times emitExecute has been called on the regexpData.
\* described: the last call of describeNode by a caller outside emitExecute,
\*     if any: the node, the tree at the time and the text returned.
VARIABLES em, pc, calls, described, run

vars == <<em, pc, calls, described, run>>

(***************************************************************************)
(* Program constants.                                                      *)
(***************************************************************************)
MaxUnrollSize == 16

MaxInt32 == 2147483647

NoNode == 0

(***************************************************************************)
(* Regex nodes.  A tree is a sequence of nodes; a node pointer is an index *)
(* into it (NoNode is nil).  Node 1 is the implicit root Capture and its   *)
(* first child is the expression.                                          *)
(***************************************************************************)
Node(t, m, n, ch, str, set, neg, rtl, kids) ==
    [T |-> t, M |-> m, N |-> n, Ch |-> ch, Str |-> str, SetChars |-> set,
     SetNeg |-> neg, Rtl |-> rtl, Children |-> kids]

Root == Node("Capture", 0, -1, "", <<>>, <<>>, FALSE, FALSE, <<2>>)

Leaf(t) == Node(t, 0, 0, "", <<>>, <<>>, FALSE, FALSE, <<>>)

One(ch) == Node("One", 0, 0, ch, <<>>, <<>>, FALSE, FALSE, <<>>)

Notone(ch) == Node("Notone", 0, 0, ch, <<>>, <<>>, FALSE, FALSE, <<>>)

SetOf(chars) == Node("Set", 0, 0, "", <<>>, chars, FALSE, FALSE, <<>>)

Multi(str) == Node("Multi", 0, 0, "", str, <<>>, FALSE, FALSE, <<>>)

Oneloop(ch, m, n) == Node("Oneloop", m, n, ch, <<>>, <<>>, FALSE, FALSE, <<>>)

Notoneloop(ch, m, n) == Node("Notoneloop", m, n, ch, <<>>, <<>>, FALSE, FALSE, <<>>)

Setloop(chars, m, n) == Node("Setloop", m, n, "", <<>>, chars, FALSE, FALSE, <<>>)

Loop(m, n, kid) == Node("Loop", m, n, "", <<>>, <<>>, FALSE, FALSE, <<kid>>)

Group(t, kids) == Node(t, 0, 0, "", <<>>, <<>>, FALSE, FALSE, kids)

\* A capture group: M is the group number, N the group to uncapture (-1: none).
Capture(capnum, uncapnum, kid) ==
    Node("Capture", capnum, uncapnum, "", <<>>, <<>>, FALSE, FALSE, <<kid>>)

RightToLeft(node) == [node EXCEPT !.Rtl = TRUE]

IsOneFamily(node) == node.T \in {"One", "Oneloop", "Onelazy"}

IsNotoneFamily(node) == node.T \in {"Notone", "Notoneloop", "Notonelazy"}

IsSetFamily(node) == node.T \in {"Set", "Setloop", "Setlazy"}

Kids(nodes, id) == nodes[id].Children

RangeOf(seq) == {seq[i] : i \in 1..Len(seq)}

RECURSIVE SumSeq(_)
SumSeq(seq) == IF seq = <<>> THEN 0 ELSE Head(seq) + SumSeq(Tail(seq))

MinOf(set) == CHOOSE x \in set : \A y \in set : x <= y

(***************************************************************************)
(* The tree helpers and the analysis of package syntax, which the emitter  *)
(* consumes read-only.  They are computed from the tree the way the        *)
(* package's contract describes.                                           *)
(***************************************************************************)
RECURSIVE ComputeMinLength(_, _)
ComputeMinLength(nodes, id) ==
    LET node == nodes[id]
        kid(i) == ComputeMinLength(nodes, node.Children[i])
    IN  CASE node.T \in {"One", "Notone", "Set"} -> 1
          [] node.T = "Multi" -> Len(node.Str)
          [] node.T \in {"Oneloop", "Notoneloop", "Setloop",
                         "Onelazy", "Notonelazy", "Setlazy"} -> node.M
          [] node.T \in {"Loop", "Lazyloop"} -> node.M * kid(1)
          [] node.T = "Alternate" ->
                MinOf({kid(i) : i \in 1..Len(node.Children)})
          [] node.T = "Concatenate" ->
                SumSeq([i \in 1..Len(node.Children) |-> kid(i)])
          [] node.T = "Atomic" -> kid(1)
          [] node.T = "Capture" /\ node.N = -1 -> kid(1)
          [] OTHER -> 0

\* The node that is guaranteed to begin any match of `id`, or NoNode.
RECURSIVE FindStartingLiteralNode(_, _, _)
FindStartingLiteralNode(nodes, id, allowZeroWidth) ==
    LET node == nodes[id]
    IN  IF node.Rtl THEN NoNode
        ELSE CASE node.T \in {"One", "Notone", "Set", "Multi"} -> id
               [] node.T \in {"Oneloop", "Notoneloop", "Setloop",
                              "Onelazy", "Notonelazy", "Setlazy"} ->
                     IF node.M > 0 THEN id ELSE NoNode
               [] node.T \in {"Atomic", "Concatenate", "Capture"} ->
                     FindStartingLiteralNode(nodes, node.Children[1], allowZeroWidth)
               [] node.T \in {"Loop", "Lazyloop"} ->
                     IF node.M > 0
                     THEN FindStartingLiteralNode(nodes, node.Children[1], allowZeroWidth)
                     ELSE NoNode
               [] node.T = "PosLook" ->
                     IF allowZeroWidth
                     THEN FindStartingLiteralNode(nodes, node.Children[1], allowZeroWidth)
                     ELSE NoNode
               [] OTHER -> NoNode

FirstCharOfOneOrMulti(node) == IF node.T = "Multi" THEN node.Str[1] ELSE node.Ch

CanJoinLengthCheck(node) ==
    \/ node.T \in {"One", "Notone", "Set", "Multi"}
    \/ /\ node.T \in {"Oneloop", "Notoneloop", "Setloop",
                      "Onelazy", "Notonelazy", "Setlazy"}
       /\ node.M = node.N

\* The exclusive end of the run of length-check-joinable children from index i.
RECURSIVE JoinableEnd(_, _, _)
JoinableEnd(nodes, id, i) ==
    IF i <= Len(nodes[id].Children) /\ CanJoinLengthCheck(nodes[nodes[id].Children[i]])
    THEN JoinableEnd(nodes, id, i + 1)
    ELSE i

\* [ok, requiredLength, exclusiveEnd]; child indices are 1-based here.
TryGetJoinableLengthCheckChildRange(nodes, id, i) ==
    LET end == JoinableEnd(nodes, id, i)
    IN  IF end - i > 1
        THEN [ok |-> TRUE,
              requiredLength |->
                  SumSeq([k \in 1..(end - i) |->
                             ComputeMinLength(nodes, nodes[id].Children[i + k - 1])]),
              exclusiveEnd |-> end]
        ELSE [ok |-> FALSE, requiredLength |-> 0, exclusiveEnd |-> 0]

\* The lower-case letter of a two-character set that holds both cases of one
\* letter ("" otherwise).
CaseInsensitiveLetter(node) ==
    IF node.T = "Set" /\ ~node.SetNeg /\ node.SetChars = <<"A", "a">> THEN "a"
    ELSE IF node.T = "Set" /\ ~node.SetNeg /\ node.SetChars = <<"B", "b">> THEN "b"
    ELSE ""

RECURSIVE CaseInsensitiveEnd(_, _, _, _)
CaseInsensitiveEnd(nodes, id, i, exclusiveEnd) ==
    IF i < exclusiveEnd /\ CaseInsensitiveLetter(nodes[nodes[id].Children[i]]) # ""
    THEN CaseInsensitiveEnd(nodes, id, i + 1, exclusiveEnd)
    ELSE i

\* [ok, nodesConsumed, str]: a run of at least two sets that each hold both
\* cases of one letter is one ordinal case-insensitive string.
TryGetOrdinalCaseInsensitiveString(nodes, id, i, exclusiveEnd) ==
    LET end == CaseInsensitiveEnd(nodes, id, i, exclusiveEnd)
    IN  IF end - i >= 2
        THEN [ok |-> TRUE, nodesConsumed |-> end - i,
              str |-> [k \in 1..(end - i) |->
                          CaseInsensitiveLetter(nodes[nodes[id].Children[i + k - 1]])]]
        ELSE [ok |-> FALSE, nodesConsumed |-> 0, str |-> <<>>]

\* RegexTreeAnalyzer: the nodes that nothing can backtrack into.
RECURSIVE AtomicByAncestorSet(_, _, _)
AtomicByAncestorSet(nodes, id, isAtomicByAncestor) ==
    LET node == nodes[id]
        isAtomicBySelf == node.T \in {"Atomic", "PosLook", "NegLook"}
        treatChildAsAtomic(i) ==
            /\ isAtomicByAncestor \/ isAtomicBySelf
            /\ CASE node.T \in {"Atomic", "PosLook", "NegLook", "Alternate",
                                "BackRefCond", "ExprCond", "Capture"} -> TRUE
                 [] node.T = "Concatenate" -> i = Len(node.Children)
                 [] node.T \in {"Loop", "Lazyloop"} -> node.N = 1
                 [] OTHER -> FALSE
    IN  (IF isAtomicByAncestor THEN {id} ELSE {})
        \cup UNION {AtomicByAncestorSet(nodes, node.Children[i], treatChildAsAtomic(i)) :
                        i \in 1..Len(node.Children)}

RECURSIVE InLoopSet(_, _, _)
InLoopSet(nodes, id, isInLoop) ==
    LET node == nodes[id]
        inner == isInLoop \/ node.T \in {"Loop", "Lazyloop"}
    IN  (IF isInLoop THEN {id} ELSE {})
        \cup UNION {InLoopSet(nodes, node.Children[i], inner) :
                        i \in 1..Len(node.Children)}

RECURSIVE ContainsCapture(_, _)
ContainsCapture(nodes, id) ==
    \/ nodes[id].T = "Capture"
    \/ \E i \in 1..Len(nodes[id].Children) : ContainsCapture(nodes, nodes[id].Children[i])

RECURSIVE MayBacktrackNode(_, _, _)
MayBacktrackNode(nodes, id, atomicSet) ==
    LET node == nodes[id]
    IN  \/ /\ id \notin atomicSet
           /\ \/ node.T = "Alternate"
              \/ /\ node.T \in {"Loop", "Lazyloop", "Oneloop", "Notoneloop", "Setloop",
                                "Onelazy", "Notonelazy", "Setlazy"}
                 /\ node.M # node.N
        \/ /\ node.T \notin {"Atomic", "PosLook", "NegLook"}
           /\ \E i \in 1..Len(node.Children) :
                  MayBacktrackNode(nodes, node.Children[i], atomicSet)

\* The analysis results for a tree, computed once before emission.
Analyze(nodes) ==
    LET atomicSet == AtomicByAncestorSet(nodes, 1, TRUE)
        ids == 1..Len(nodes)
    IN  [isAtomicByAncestor |-> atomicSet,
         isInLoop |-> InLoopSet(nodes, 1, FALSE),
         containsCapture |-> {id \in ids : ContainsCapture(nodes, id)},
         mayBacktrack |-> {id \in ids : MayBacktrackNode(nodes, id, atomicSet)}]

\* Nodes made up during emission are not in the analysis results.
MayBacktrack(s, id) == id \in s.Analysis.mayBacktrack

IsAtomicByAncestor(s, id) == id \in s.Analysis.isAtomicByAncestor

IsInLoop(s, id) == id \in s.Analysis.isInLoop

MayContainCapture(s, id) == id \in s.Analysis.containsCapture

(***************************************************************************)
(* Emitted source.  One record per statement or condition fragment:        *)
(*   op   the statement kind ("=", ":=", "var", "goto", "label", "if",     *)
(*        "||", "&&", "{", "}", "push", "uncapture", ...);                 *)
(*   a    the left operand (a variable, a label, an expression);           *)
(*   cmp  the operator of a condition or of an assignment's right side;    *)
(*   b    the right operand;  n, m  the constants of the two sides;        *)
(*   args the arguments of a call or the characters of a class.            *)
(***************************************************************************)
Ln(op, a, cmp, b, n, m, args) ==
    [op |-> op, a |-> a, cmp |-> cmp, b |-> b, n |-> n, m |-> m, args |-> args]

Stmt(op, a, b) == Ln(op, a, "", b, 0, 0, <<>>)

Comment(text, id) == Ln("comment", text, "", "", id, 0, <<>>)

\* lhs = rhs, lhs := rhs or var lhs = rhs (kind), rhs an expression name.
Assign(kind, lhs, rhs) == Ln(kind, lhs, "", rhs, 0, 0, <<>>)

\* lhs = rhs + k or lhs = rhs - k.
AssignOffset(kind, lhs, rhs, sign, k) == Ln(kind, lhs, sign, rhs, 0, k, <<>>)

\* lhs = k.
AssignConst(kind, lhs, k) == Ln(kind, lhs, "", "", 0, k, <<>>)

Goto(label) == Stmt("goto", label, "")

Label(label) == Stmt("label", label, "")

\* One comparison of a condition: left cmp right.  An operand is an expression
\* name with a constant added to it, or the constant alone when the name is "".
\* In a[k] forms the constant is the index.
Clause(op, a, n, cmp, b, m) == Ln(op, a, cmp, b, n, m, <<>>)

\* A character-class test of expression a[n]: cmp is "in" or "notin".
ClassClause(op, a, n, cmp, chars, negated) ==
    Ln(op, a, cmp, IF negated THEN "negated" ELSE "", n, 0, chars)

Open == Stmt("{", "", "")

Close == Stmt("}", "", "")

Capture0(group, start, end) == Ln("capture", start, "", end, group, 0, <<>>)

TransferCapture(capnum, uncapnum, start, end) ==
    Ln("transfercapture", start, "", end, capnum, uncapnum, <<>>)

ReturnNil(comment) == Stmt("return", "nil", comment)

Quote(ch) == "'" \o ch \o "'"

(***************************************************************************)
(* The emitter's state: the converter (its output sink) and the            *)
(* regexpData (tree, analysis, and the per-emission fields).               *)
(***************************************************************************)
NamePrefixes ==
    {"NoMatch", "atomic_stackpos", "CharLoopBacktrack", "CharLoopEnd",
     "charloop_starting_pos", "charloop_ending_pos", "charloop_capture_pos",
     "iteration", "loop_iteration", "startingStackpos", "LoopBody", "LoopEnd",
     "loop_starting_pos", "LoopIterationNoMatch", "LoopBacktrack",
     "LoopSkipBacktrack", "AlternationMatch", "alternation_starting_pos",
     "alternation_starting_capturepos", "AlternationBacktrack",
     "alternation_branch", "AlternationBranch", "capture_starting_pos",
     "CaptureSkipBacktrack", "CaptureBacktrack"}

NewEmitter(nodes, rtl, literalAfterLoop) ==
    [nodes |-> nodes,
     Options |-> [RightToLeft |-> rtl],
     Tree |-> [Caplist |-> <<>>, Capnumlist |-> <<>>, Caps |-> <<>>,
               Captop |-> 1 + Cardinality({i \in 2..Len(nodes) : nodes[i].T = "Capture"})],
     literalAfterLoop |-> literalAfterLoop,
     Analysis |-> Analyze(nodes),
     out |-> "real",
     real |-> <<>>,
     buf |-> <<>>,
     additionalDeclarations |-> <<>>,
     usedNames |-> [p \in NamePrefixes |-> 0],
     sliceSpan |-> "",
     sliceStaticPos |-> 0,
     doneLabel |-> "",
     topLevelDoneLabel |-> "",
     expressionHasCaptures |-> FALSE,
     emittedLabels |-> <<>>,
     usedLabels |-> <<>>,
     panic |-> <<>>,
     \* bookkeeping for the analysis, per call of emitExecute
     base |-> 0,
     visited |-> <<>>,
     markedAt |-> <<>>,
     returned |-> <<>>,
     exits |-> <<>>,
     treeOnEntry |-> <<>>,
     treeOnConstruction |-> nodes,
     spans |-> <<>>,
     loops |-> <<>>,
     charLoops |-> <<>>,
     joined |-> <<>>,
     children |-> <<>>,
     branches |-> <<>>,
     pushers |-> <<>>,
     pending |-> 0,
     matched |-> 0,
     queued |-> <<>>,
     body |-> <<>>]

\* c.write / c.writeLine / c.writeLineFmt: append to whatever c.out points at.
writeLine(s, line) ==
    IF s.out = "buf"
    THEN [s EXCEPT !.buf = Append(@, line)]
    ELSE [s EXCEPT !.real = Append(@, line)]

writeLines(s, lines) ==
    IF s.out = "buf"
    THEN [s EXCEPT !.buf = @ \o lines]
    ELSE [s EXCEPT !.real = @ \o lines]

\* Statements run in order: Then(v, LAMBDA x : e) is e with x the state (or
\* value) v that the statement before left, computed before e is.
Then(v, rest(_)) == CASE v = v -> rest(v)

\* What c.out holds at this point of the emission.
CurrentOut(s) == IF s.out = "buf" THEN s.buf ELSE s.real

\* rm.reserveName: the name it returns (unadorned the first time, with a
\* numeric suffix on reuse) and the state it leaves.
reservedName(s, prefix) ==
    IF s.usedNames[prefix] = 0 THEN prefix
    ELSE prefix \o ToString(s.usedNames[prefix])

reserveName(s, prefix) == [s EXCEPT !.usedNames[prefix] = @ + 1]

addLocalDec(s, dec) ==
    [s EXCEPT !.additionalDeclarations = Append(@, dec)]

\* A declaration line "name := 0" and the two-name form "a, b := 0, 0".
Dec(name) == Ln("dec", name, ":=", "", 0, 0, <<name>>)

Dec2(kind, a, b) == Ln("dec", a, kind, b, 0, 0, <<a, b>>)

\* panic(...): the first panic freezes the emitter; the state it froze in is
\* what the deferred functions of emitExecute then see.
Panic(s, id) ==
    IF s.panic # <<>> THEN s
    ELSE [s EXCEPT !.panic = <<[node |-> id, at |-> <<s>>]>>]

\* Bookkeeping for the analysis: an emitter call at `node` pushed with the
\* statement at `line` of the body and pops at its backtracking label `label`.
Pusher(s, emitter, id, line, label) ==
    [s EXCEPT !.pushers = Append(@, [emitter |-> emitter, node |-> id,
                                     line |-> line, label |-> label])]

(***************************************************************************)
(* Condition fragments.  A condition is written as the token "if" (or      *)
(* "for"), then clauses joined by "||" / "&&" tokens (with parenthesis     *)
(* tokens where the source writes them), then "{".                         *)
(***************************************************************************)
If == Stmt("if", "", "")

For == Stmt("for", "", "")

\* " || " with the description of the previous clause as a comment, if any.
Or(desc) == Stmt("||", "", desc)

And == Stmt("&&", "", "")

LParen == Stmt("(", "", "")

RParen == Stmt(")", "", "")

Cl(a, n, cmp, b, m) == Ln("clause", a, cmp, b, n, m, <<>>)

ClassCl(a, n, cmp, node, index) ==
    Ln("clause", a, cmp, IF node.SetNeg THEN "negated" ELSE "", n, 0,
       <<index>> \o node.SetChars)

\* len(<span>) as an operand.
LenOf(span) == "len(" \o span \o ")"

\* <span>[k] as an operand (the index is the clause's constant).
At(span) == span \o "[]"

(***************************************************************************)
(* Leaf emitters.                                                          *)
(***************************************************************************)
\* slice = r.Runtext[pos:], declared when `declare`.
sliceInputSpan(s, declare) ==
    writeLine(s, Assign(IF declare THEN "var" ELSE "=", s.sliceSpan, "r.Runtext[pos:]"))

\* A variant of emitAddStmt that adds nothing.
emitAddStmtNothing(s, variable, value) == s

emitAddStmt(s, variable, value) ==
    IF value = 0 THEN s
    ELSE IF value = 1 THEN writeLine(s, Stmt("++", variable, ""))
    ELSE IF value = -1 THEN writeLine(s, Stmt("--", variable, ""))
    ELSE IF value > 0 THEN writeLine(s, Ln("+=", variable, "", "", 0, value, <<>>))
    ELSE writeLine(s, Ln("-=", variable, "", "", 0, -value, <<>>))

\* A variant of transferSliceStaticPosToPos that keeps the static offset.
transferKeepingStaticPos(s, forceSliceReload) ==
    IF s.sliceStaticPos > 0
    THEN sliceInputSpan(emitAddStmt(s, "pos", s.sliceStaticPos), FALSE)
    ELSE IF forceSliceReload THEN sliceInputSpan(s, FALSE)
    ELSE s

transferSliceStaticPosToPos(s, forceSliceReload) ==
    IF s.sliceStaticPos > 0
    THEN sliceInputSpan(
             [emitAddStmt(s, "pos", s.sliceStaticPos) EXCEPT !.sliceStaticPos = 0], FALSE)
    ELSE IF forceSliceReload THEN sliceInputSpan(s, FALSE)
    ELSE s

\* A variant of gotoWillExitMatch for which no jump leaves the match.
gotoNeverExitsMatch(s, label) == FALSE

gotoWillExitMatch(s, label) == label = s.topLevelDoneLabel

\* A variant of emitUncaptureUntil that leaves the captures where they are.
emitUncaptureUntilNothing(s, capturepos) == s

emitUncaptureUntil(s, capturepos) == writeLine(s, Stmt("uncapture", capturepos, ""))

\* A variant of emitExecuteGoto that uncaptures on every failure exit.
emitExecuteGotoUncapturing(s, label) ==
    IF gotoWillExitMatch(s, label)
    THEN writeLine(emitUncaptureUntil(s, "0"), ReturnNil("The input didn't match."))
    ELSE writeLine([s EXCEPT !.usedLabels = Append(@, label)], Goto(label))

emitExecuteGoto(s, label) ==
    IF gotoWillExitMatch(s, label)
    THEN writeLine(IF s.expressionHasCaptures THEN emitUncaptureUntil(s, "0") ELSE s,
                   ReturnNil("The input didn't match."))
    ELSE writeLine([s EXCEPT !.usedLabels = Append(@, label)], Goto(label))

emitCaseGoto(s, clause, label) == emitExecuteGoto(writeLine(s, clause), label)

\* A variant of emitMarkLabel that records the label without writing it.
emitMarkLabelUnwritten(s, label) ==
    [s EXCEPT !.emittedLabels = Append(@, label),
              !.markedAt = Append(@, s.sliceStaticPos)]

emitMarkLabel(s, label) ==
    writeLine([s EXCEPT !.emittedLabels = Append(@, label),
                        !.markedAt = Append(@, s.sliceStaticPos)],
              Label(label))

\* A variant of emitStackPop that leaves the first value on the stack.
emitStackPopButFirst(s, stackCookie, args) ==
    writeLines(s, [i \in 1..(Len(args) - 1) |-> Assign("=", args[i + 1], "r.StackPop()")])

\* One "x = r.StackPop()" line per argument, in argument order.
emitStackPop(s, stackCookie, args) ==
    writeLines(s, [i \in 1..Len(args) |-> Assign("=", args[i], "r.StackPop()")])

createStackCookie == 0

emitStackCookieValidate(s, stackCookie) == s

validateStackCookieWithAdditionAndReturnPoppedStack(stackCookie) == "r.StackPop()"

emitStackPush(s, stackCookie, args) ==
    writeLine(s, Ln("push",
                    CASE Len(args) = 1 -> "r.StackPush"
                      [] Len(args) = 2 -> "r.StackPush2"
                      [] Len(args) = 3 -> "r.StackPush3"
                      [] OTHER -> "r.StackPushN",
                    "", "", 0, 0, args))

emitTimeoutCheckIfNeeded(s) == s

emitTimeoutCheck(s) ==
    writeLines(s, <<If, Ln("clause", "err", "!=", "nil", 0, 0, <<"r.CheckTimeout()">>),
                    Open, Stmt("return", "err", ""), Close>>)

\* sum(constant, local): [name, k] for "k", "name" or "k + name"; a non-nil
\* local next to a non-zero constant is formatted from the pointer.
sum(constant, local) ==
    IF local = "" THEN [name |-> "", k |-> constant]
    ELSE IF constant = 0 THEN [name |-> local, k |-> 0]
    ELSE [name |-> "%!s(*string)", k |-> constant]

spanLengthCheck(s, requiredLength, dynamicRequiredLength) ==
    IF dynamicRequiredLength = "" /\ s.sliceStaticPos + requiredLength = 1
    THEN Cl(LenOf(s.sliceSpan), 0, "==", "", 0)
    ELSE LET t == sum(s.sliceStaticPos + requiredLength, dynamicRequiredLength)
         IN  Cl(LenOf(s.sliceSpan), 0, "<", t.name, t.k)

emitSpanLengthCheck(s, requiredLength, dynamicRequiredLength) ==
    writeLine(
        emitExecuteGoto(
            writeLines(s, <<If, spanLengthCheck(s, requiredLength, dynamicRequiredLength),
                            Open>>),
            s.doneLabel),
        Close)

countIsLessThan(count, exclusiveUpper) ==
    IF exclusiveUpper = 1 THEN Cl(count, 0, "==", "", 0)
    ELSE Cl(count, 0, "<", "", exclusiveUpper)

emitExecuteUpdateBumpalong(s, id) ==
    writeLines(transferSliceStaticPosToPos(s, FALSE),
               <<If, Cl("r.Runtextpos", 0, "<", "pos", 0), Open,
                 Assign("=", "r.Runtextpos", "pos"), Close>>)

\* The character-class test that emitMatchCharacterClass renders for a set.
emitMatchCharacterClass(node, negate, a, n, index) ==
    ClassCl(a, n, IF negate THEN "notin" ELSE "in", node, index)

emitExecuteMultiCharString(s, str, emitLengthCheck, clauseOnly, rightToLeft) ==
    IF rightToLeft
    THEN LET s1 == writeLines(s, <<If, Cl("pos", -Len(str), ">=", "r.Runtextlen", 0), Open>>)
             s2 == writeLine(emitExecuteGoto(s1, s.doneLabel), Close)
             s3 == writeLines(s2,
                       <<For, Ln("clause", "i", "<", "", 0, Len(str), <<"i:=0", "i++">>),
                         Open, Stmt("--", "pos", ""), If,
                         Ln("clause", "r.Runtext[pos]", "!=", "str[]-i", 0, Len(str), str),
                         Open>>)
         IN  writeLines(emitExecuteGoto(s3, s.doneLabel), <<Close, Close>>)
    ELSE LET clause == Ln("clause", s.sliceSpan \o "[:]", "!StartsWith", "",
                          s.sliceStaticPos, 0, str)
             s1 == IF clauseOnly THEN writeLine(s, clause)
                   ELSE writeLine(
                            emitExecuteGoto(writeLines(s, <<If, clause, Open>>), s.doneLabel),
                            Close)
         IN  [s1 EXCEPT !.sliceStaticPos = @ + Len(str)]

emitExecuteSingleChar(s, id, emitLengthCheck, offset, clauseOnly) ==
    LET node == s.nodes[id]
        rtl == node.Rtl
        at == sum(s.sliceStaticPos, offset)
        a == IF rtl THEN "r.Runtext[pos-1]"
             ELSE IF at.name = "" THEN At(s.sliceSpan)
             ELSE s.sliceSpan \o "[" \o at.name \o "]"
        n == IF rtl THEN 0 ELSE at.k
        expr == IF IsSetFamily(node) THEN emitMatchCharacterClass(node, TRUE, a, n, "")
                ELSE IF IsOneFamily(node) THEN Cl(a, n, "!=", Quote(node.Ch), 0)
                ELSE Cl(a, n, "==", Quote(node.Ch), 0)
        s1 == IF clauseOnly THEN writeLine(s, expr)
              ELSE LET clause ==
                           IF ~emitLengthCheck THEN <<If, expr, Open>>
                           ELSE IF ~rtl
                           THEN <<If, spanLengthCheck(s, 1, offset), Or(""), expr, Open>>
                           ELSE <<If, Cl("pos", -1, ">=", "r.Runtextend", 0), Or(""), expr>>
                   IN  writeLine(emitExecuteGoto(writeLines(s, clause), s.doneLabel), Close)
    IN  IF ~rtl THEN [s1 EXCEPT !.sliceStaticPos = @ + 1]
        ELSE writeLine(s1, Stmt("--", "pos", ""))

NL == "\n"

emitExecuteAnchors(s, id) ==
    LET node == s.nodes[id]
        k == s.sliceStaticPos
        span == s.sliceSpan
        fail(cond) == writeLine(emitExecuteGoto(writeLines(s, cond), s.doneLabel), Close)
    IN  CASE node.T \in {"Beginning", "Start"} ->
                IF k > 0 THEN emitExecuteGoto(s, s.doneLabel)
                ELSE IF node.T = "Beginning"
                THEN fail(<<If, Cl("pos", 0, "!=", "", 0), Open>>)
                ELSE fail(<<If, Cl("pos", 0, "!=", "r.Runtextstart", 0), Open>>)
          [] node.T = "Bol" ->
                IF k > 0
                THEN fail(<<If, Cl(At(span), k - 1, "!=", Quote(NL), 0), Open>>)
                ELSE fail(<<If, Cl("pos", 0, ">", "", 0), And,
                            Cl("r.Runtext[pos-1]", 0, "!=", Quote(NL), 0), Open>>)
          [] node.T = "End" ->
                IF k > 0
                THEN fail(<<If, Cl("", k, "<", LenOf(span), 0), Open>>)
                ELSE fail(<<If, Cl("pos", 0, "<", "r.Runtextend", 0), Open>>)
          [] node.T = "EndZ" ->
                IF k > 0
                THEN fail(<<If, Cl(LenOf(span), 0, ">", "", k + 1), Or(""), LParen,
                            Cl(LenOf(span), 0, ">", "", k), And,
                            Cl(At(span), k, "!=", Quote(NL), 0), RParen, Open>>)
                ELSE fail(<<If, LParen, Cl("pos", 0, "<", "r.Runtextend", -1), RParen,
                            Or(""), LParen, Cl("pos", 0, "<", "r.Runtextend", 0), And,
                            Cl("r.Runtext[pos]", 0, "!=", Quote(NL), 0), RParen, Open>>)
          [] node.T = "Eol" ->
                IF k > 0
                THEN fail(<<If, Cl("", k, "<", LenOf(span), 0), RParen, And,
                            Cl(At(span), k, "!=", Quote(NL), 0), RParen, Open>>)
                ELSE fail(<<If, Cl("pos", 0, "<", "r.Runtextend", 0), And,
                            Cl("r.Runtext[pos]", 0, "!=", Quote(NL), 0), RParen, Open>>)
          [] OTHER -> s

emitExecuteBoundary(s, id) == s

emitExecuteSingleCharRepeater(s, id, emitLengthChecksIfRequired) == s

emitExecuteSingleCharLazy(s, id, subsequent, emitLengthChecksIfRequired) == s

emitExecuteLazy(s, id) == s

emitExecuteBackreference(s, id) == s

emitExecuteBackreferenceConditional(s, id) == s

emitExecuteExpressionConditional(s, id) == s

emitExecutePositiveLookaroundAssertion(s, id) == s

emitExecuteNegativeLookaroundAssertion(s, id) == s

\* The comparison of one character (expression a[n], or a[index]) with the
\* character or class of a single-character node, true when it matches.
MatchExpr(node, a, n, index) ==
    IF IsSetFamily(node) THEN emitMatchCharacterClass(node, FALSE, a, n, index)
    ELSE Ln("clause", a, IF IsOneFamily(node) THEN "==" ELSE "!=", Quote(node.Ch),
            n, 0, <<index>>)

emitExecuteAtomicSingleCharZeroOrOne(s, id) ==
    LET node == s.nodes[id]
        rtl == node.Rtl
    IN  Then(IF rtl THEN transferSliceStaticPosToPos(s, FALSE) ELSE s, LAMBDA s1 :
        LET expr == IF rtl THEN MatchExpr(node, "r.Runtext[pos-1]", 0, "")
                    ELSE MatchExpr(node, At(s1.sliceSpan), s1.sliceStaticPos, "")
            spaceAvailable ==
                IF rtl THEN Cl("pos", 0, ">", "", 0)
                ELSE IF s1.sliceStaticPos # 0
                THEN Cl(LenOf(s1.sliceSpan), 0, ">", "", s1.sliceStaticPos)
                ELSE Cl(LenOf(s1.sliceSpan), 0, "==", "", 0)
        IN
        Then(writeLines(s1, <<If, spaceAvailable, And, expr, Open>>), LAMBDA s2 :
        Then(IF ~rtl
             THEN writeLines(s2, <<Ln("=", s2.sliceSpan, "", s2.sliceSpan \o "[:]", 0, 1, <<>>),
                                   Stmt("++", "pos", "")>>)
             ELSE writeLine(s2, Stmt("--", "pos", "")), LAMBDA s3 :
        writeLine(s3, Close))))

\* A set that matches every character.
IsAnything(node) == node.SetNeg /\ node.SetChars = <<>>

\* GetIfNRanges(1): the set is one range of characters.
IsSingleRange(node) == node.SetChars = <<"a", "b", "c">>

\* A variant of tryEmitExecuteIndexOf that always searches from the front.
tryEmitExecuteIndexOfFirst(s, id, useLast, negate) ==
    LET node == s.nodes[id]
        last == ""
        call(fn, args, len) ==
            [ok |-> TRUE, literalLength |-> len,
             fn |-> "helpers." \o last \o fn, args |-> args]
    IN  IF node.T = "Multi" THEN call("IndexOf", node.Str, Len(node.Str))
        ELSE IF IsOneFamily(node)
        THEN call(IF negate THEN "IndexOfAnyExcept1" ELSE "IndexOfAny1", <<node.Ch>>, 1)
        ELSE IF IsNotoneFamily(node)
        THEN call(IF negate THEN "IndexOfAny1" ELSE "IndexOfAnyExcept1", <<node.Ch>>, 1)
        ELSE IF IsSetFamily(node) /\ IsSingleRange(node)
        THEN call(IF node.SetNeg # negate THEN "IndexOfAnyExceptInRange"
                  ELSE "IndexOfAnyInRange",
                  <<node.SetChars[1], node.SetChars[Len(node.SetChars)]>>, 1)
        ELSE IF IsSetFamily(node) /\ Len(node.SetChars) > 0
        THEN call(IF negate THEN "IndexOfAnyExcept" ELSE "IndexOfAny", node.SetChars, 1)
        ELSE [ok |-> FALSE, literalLength |-> 0, fn |-> "", args |-> <<>>]

\* [ok, literalLength, fn, args]: the helpers call that finds the node's
\* character(s) in a span; the span is filled in by the caller.
tryEmitExecuteIndexOf(s, id, useLast, negate) ==
    LET node == s.nodes[id]
        last == IF useLast THEN "Last" ELSE ""
        call(fn, args, len) ==
            [ok |-> TRUE, literalLength |-> len,
             fn |-> "helpers." \o last \o fn, args |-> args]
    IN  IF node.T = "Multi" THEN call("IndexOf", node.Str, Len(node.Str))
        ELSE IF IsOneFamily(node)
        THEN call(IF negate THEN "IndexOfAnyExcept1" ELSE "IndexOfAny1", <<node.Ch>>, 1)
        ELSE IF IsNotoneFamily(node)
        THEN call(IF negate THEN "IndexOfAny1" ELSE "IndexOfAnyExcept1", <<node.Ch>>, 1)
        ELSE IF IsSetFamily(node) /\ IsSingleRange(node)
        THEN call(IF node.SetNeg # negate THEN "IndexOfAnyExceptInRange"
                  ELSE "IndexOfAnyInRange",
                  <<node.SetChars[1], node.SetChars[Len(node.SetChars)]>>, 1)
        ELSE IF IsSetFamily(node) /\ Len(node.SetChars) > 0
        THEN call(IF negate THEN "IndexOfAnyExcept" ELSE "IndexOfAny", node.SetChars, 1)
        ELSE [ok |-> FALSE, literalLength |-> 0, fn |-> "", args |-> <<>>]

emitExecuteSingleCharAtomicLoop(s, id, emitLengthChecksIfRequired) ==
    LET node == s.nodes[id]
        minIterations == node.M
        maxIterations == node.N
        rtl == node.Rtl
        iterationLocal == reservedName(s, "iteration")
        maxClause == IF maxIterations # MaxInt32
                     THEN <<countIsLessThan(iterationLocal, maxIterations), And>>
                     ELSE <<>>
        anything == IsSetFamily(node) /\ maxIterations = MaxInt32 /\ IsAnything(node)
    IN  IF node.M = node.N
        THEN emitExecuteSingleCharRepeater(s, id, emitLengthChecksIfRequired)
        ELSE IF node.M = 0 /\ node.N = 1
        THEN emitExecuteAtomicSingleCharZeroOrOne(s, id)
        ELSE
        Then(reserveName(s, "iteration"), LAMBDA s0 :
        LET indexOf == tryEmitExecuteIndexOf(s0, id, FALSE, TRUE) IN
        Then(IF rtl
             THEN Then(transferSliceStaticPosToPos(s0, FALSE), LAMBDA t :
                  IF anything
                  THEN writeLine(t, Assign(":=", iterationLocal, "pos"))
                  ELSE writeLines(t,
                           <<AssignConst(":=", iterationLocal, 0), For>> \o maxClause \o
                           <<Cl("pos", 0, ">", iterationLocal, 0), And,
                             MatchExpr(node, "r.Runtext[pos--1]", 0, iterationLocal),
                             Open, Stmt("++", iterationLocal, ""), Close>>))
             ELSE IF anything
             THEN writeLine(transferSliceStaticPosToPos(s0, FALSE),
                            AssignOffset(":=", iterationLocal, "r.Runtextend", "-pos", 0))
             ELSE IF indexOf.ok
             THEN Then(transferSliceStaticPosToPos(s0, FALSE), LAMBDA t :
                  LET bound == IF maxIterations # MaxInt32 THEN maxIterations ELSE -1
                  IN  writeLines(t,
                          <<Ln(":=", iterationLocal, indexOf.fn, t.sliceSpan, 0, bound,
                               indexOf.args),
                            If, Cl(iterationLocal, 0, "<", "", 0), Open,
                            Ln("=", iterationLocal, "len", t.sliceSpan, 0, bound, <<>>),
                            Close>>))
             ELSE Then(IF minIterations # 0 \/ maxIterations # MaxInt32
                       THEN transferSliceStaticPosToPos(s0, FALSE)
                       ELSE s0, LAMBDA t :
                  Then(writeLine(t, AssignConst("=", iterationLocal, t.sliceStaticPos)),
                       LAMBDA u :
                  writeLines([u EXCEPT !.sliceStaticPos = 0],
                      <<For>> \o maxClause \o
                      <<Cl(iterationLocal, 0, "<", LenOf(u.sliceSpan), 0), And,
                        MatchExpr(node, At(u.sliceSpan), 0, iterationLocal),
                        Open, Stmt("++", iterationLocal, ""), Close>>))),
             LAMBDA scanned :
        Then(IF minIterations > 0
             THEN writeLine(
                      emitExecuteGoto(
                          writeLines(scanned,
                              <<If, countIsLessThan(iterationLocal, minIterations), Open>>),
                          scanned.doneLabel),
                      Close)
             ELSE scanned, LAMBDA checked :
        IF ~rtl
        THEN writeLines(checked,
                 <<Ln("=", checked.sliceSpan, "", checked.sliceSpan \o "[:]", 0, 0,
                      <<iterationLocal>>),
                   Ln("+=", "pos", "", iterationLocal, 0, 0, <<>>)>>)
        ELSE writeLine(checked, Ln("-=", "pos", "", iterationLocal, 0, 0, <<>>)))))

\* The greedy part of emitExecuteSingleCharLoop: the atomic loop between the
\* records of the starting and the ending position, and the jump over the
\* backtracking section.  n holds the names the emitter reserved.
CharLoopForward(s, id, n) ==
    LET node == s.nodes[id] IN
    Then(addLocalDec(
             reserveName(reserveName(reserveName(reserveName(s,
                 "CharLoopBacktrack"), "CharLoopEnd"), "charloop_starting_pos"),
                 "charloop_ending_pos"),
             Dec2("var", n.startingPos, n.endingPos)), LAMBDA s1 :
    Then(writeLine(transferSliceStaticPosToPos(s1, FALSE),
                   Assign("=", n.startingPos, "pos")), LAMBDA s2 :
    Then(emitExecuteSingleCharAtomicLoop(s2, id, TRUE), LAMBDA s3 :
    Then(writeLine(transferSliceStaticPosToPos(s3, FALSE),
                   Assign("=", n.endingPos, "pos")), LAMBDA s4 :
    emitExecuteGoto(
        emitAddStmt(s4, n.startingPos, IF ~node.Rtl THEN node.M ELSE -node.M),
        n.endLoop)))))

\* The start of the backtracking section: its label and the restoring of the
\* positions.  Returns the state and the local that holds the capture
\* position ("" when there is none).
CharLoopRestore(s5, id, n) ==
    LET isInLoop == IsInLoop(s5, id)
        stackCookie == createStackCookie
    IN  Then(emitMarkLabel(s5, n.backtrackingLabel), LAMBDA s6 :
        LET usesCaptureLocal == ~isInLoop /\ s6.expressionHasCaptures
            capturePos == IF usesCaptureLocal THEN reservedName(s6, "charloop_capture_pos")
                          ELSE ""
        IN
        [s |-> emitTimeoutCheckIfNeeded(
                   IF isInLoop
                   THEN emitStackPop(
                            IF s6.expressionHasCaptures
                            THEN emitUncaptureUntil(s6, "r.StackPop()") ELSE s6,
                            stackCookie, <<n.endingPos, n.startingPos>>)
                   ELSE IF s6.expressionHasCaptures
                   THEN emitUncaptureUntil(
                            [reserveName(s6, "charloop_capture_pos")
                                EXCEPT !.additionalDeclarations =
                                           @ \o <<Dec("%s"), Stmt("text", capturePos, "")>>],
                            capturePos)
                   ELSE s6),
         capturePos |-> capturePos])

\* Giving back one character, or as many as the literal that follows the
\* loop allows.
CharLoopGiveBack(s8, id, subsequent, n) ==
    LET node == s8.nodes[id]
        rtl == node.Rtl
        startingPos == n.startingPos
        endingPos == n.endingPos
        literalNode == IF subsequent # NoNode
                       THEN FindStartingLiteralNode(s8.nodes, subsequent, TRUE)
                       ELSE NoNode
        indexOf == IF ~rtl /\ node.N > 1 /\ literalNode # NoNode
                   THEN tryEmitExecuteIndexOf(s8, literalNode, TRUE, FALSE)
                   ELSE [ok |-> FALSE, literalLength |-> 0, fn |-> "", args |-> <<>>]
    IN  Then(
        IF indexOf.ok
        THEN Then(writeLines(s8, <<If, Cl(startingPos, 0, ">=", endingPos, 0), Open>>),
                  LAMBDA t1 :
             Then(writeLine(emitExecuteGoto(t1, t1.doneLabel), Close), LAMBDA t2 :
             \* r.Runtext[startingPos:endingPos], or, for a longer literal,
             \* r.Runtext[startingPos:Min(r.Runtextend, endingPos+len-1)]
             Then(writeLines(t2,
                      <<Ln("=", endingPos, indexOf.fn, startingPos,
                           IF indexOf.literalLength > 1 THEN 1 ELSE 0,
                           indexOf.literalLength - 1, indexOf.args),
                        If, Cl(endingPos, 0, "<", "", 0), Open>>), LAMBDA t3 :
             Then(writeLine(emitExecuteGoto(t3, t3.doneLabel), Close), LAMBDA t4 :
             writeLines(t4, <<Ln("+=", endingPos, "", startingPos, 0, 0, <<>>),
                              Assign("=", "pos", endingPos)>>)))))
        ELSE Then(writeLines(s8,
                      <<If, Cl(startingPos, 0, IF rtl THEN "<=" ELSE ">=",
                               endingPos, 0), Open>>), LAMBDA t1 :
             Then(writeLine(emitExecuteGoto(t1, t1.doneLabel), Close), LAMBDA t2 :
             writeLines(t2, <<Stmt(IF ~rtl THEN "--" ELSE "++", endingPos, ""),
                              Assign("=", "pos", endingPos)>>))),
        LAMBDA t5 :
        [t5 EXCEPT !.charLoops =
            Append(@, [node |-> id, originalDoneLabel |-> s8.doneLabel,
                       backtrackingLabel |-> n.backtrackingLabel,
                       endLoop |-> n.endLoop, startingPos |-> startingPos,
                       endingPos |-> endingPos, indexOf |-> indexOf])])

\* The end of emitExecuteSingleCharLoop: the end label and the state saved
\* for backtracking.
CharLoopEnd(s9, id, n, capturePos) ==
    LET isInLoop == IsInLoop(s9, id)
        stackCookie == createStackCookie
    IN  Then(emitMarkLabel(IF ~s9.nodes[id].Rtl THEN sliceInputSpan(s9, FALSE) ELSE s9,
                           n.endLoop), LAMBDA s11 :
        Then(IF isInLoop
             THEN IF s11.expressionHasCaptures
                  THEN emitStackPush(s11, stackCookie,
                                     <<n.startingPos, n.endingPos, "r.Crawlpos()">>)
                  ELSE emitStackPush(s11, stackCookie, <<n.startingPos, n.endingPos>>)
             ELSE IF capturePos # ""
             THEN writeLine(s11, Assign("=", capturePos, "r.Crawlpos()"))
             ELSE s11, LAMBDA s12 :
        [(IF isInLoop
          THEN Pusher(s12, "emitExecuteSingleCharLoop", id, Len(CurrentOut(s12)),
                      n.backtrackingLabel)
          ELSE s12)
            EXCEPT !.doneLabel = n.backtrackingLabel]))

emitExecuteSingleCharLoop(s, id, subsequent, emitLengthChecksIfRequired) ==
    LET node == s.nodes[id]
        n == [backtrackingLabel |-> reservedName(s, "CharLoopBacktrack"),
              endLoop |-> reservedName(s, "CharLoopEnd"),
              startingPos |-> reservedName(s, "charloop_starting_pos"),
              endingPos |-> reservedName(s, "charloop_ending_pos")]
    IN  IF IsAtomicByAncestor(s, id)
        THEN emitExecuteSingleCharAtomicLoop(s, id, TRUE)
        ELSE IF node.M = node.N
        THEN emitExecuteSingleCharRepeater(s, id, emitLengthChecksIfRequired)
        ELSE
        Then(CharLoopForward(s, id, n), LAMBDA s5 :
        Then(CharLoopRestore(s5, id, n), LAMBDA r :
        Then(CharLoopGiveBack(r.s, id, subsequent, n), LAMBDA s9 :
        CharLoopEnd(s9, id, n, r.capturePos))))

(***************************************************************************)
(* The node describer.                                                     *)
(***************************************************************************)
MaxCapNum == 23

\* strconv.Itoa / strconv.Atoi on the capture numbers of the model.
Itoa(i) == ToString(i)

AtoiOk(name) == \E i \in 0..MaxCapNum : Itoa(i) = name

Atoi(name) == IF AtoiOk(name) THEN CHOOSE i \in 0..MaxCapNum : Itoa(i) = name ELSE 0

\* %#v / %q of a string: the string in double quotes.
GoQuote(str) == "\"" \o str \o "\""

groupNameFromNumber(tree, i) ==
    IF Len(tree.Caplist) = 0
    THEN LET caplen == IF tree.Capnumlist = <<>> THEN tree.Captop
                       ELSE Len(tree.Capnumlist)
         IN  IF i >= 0 /\ i < caplen THEN Itoa(i) ELSE ""
    ELSE IF tree.Caps # <<>> /\ i \notin DOMAIN tree.Caps THEN ""
    ELSE LET j == IF tree.Caps # <<>> THEN tree.Caps[i] ELSE i
         IN  IF j >= 0 /\ j < Len(tree.Caplist) THEN tree.Caplist[j + 1] ELSE ""

describeCapture(s, capNum) ==
    LET name == groupNameFromNumber(s.Tree, capNum)
        err == ~AtoiOk(name)
        id == Atoi(name)
        tens == capNum % 10
    IN  IF ~err \/ id # capNum THEN GoQuote(name) \o " capture group"
        ELSE IF tens >= 1 /\ tens <= 3 /\ ~(capNum = 11 \/ capNum = 12 \/ capNum = 13)
        THEN CASE tens = 1 -> Itoa(capNum) \o "st capture group"
               [] tens = 2 -> Itoa(capNum) \o "nd capture group"
               [] OTHER -> Itoa(capNum) \o "rd capture group"
        ELSE Itoa(capNum) \o "th capture group"

describeLoop(s, id) ==
    LET node == s.nodes[id]
        style ==
            IF node.T \in {"Oneloop", "Notoneloop", "Setloop"} THEN "greedily"
            ELSE IF node.T \in {"Onelazy", "Notonelazy", "Setlazy"} THEN "lazily"
            ELSE IF node.T = "Loop"
            THEN IF IsAtomicByAncestor(s, id) THEN "greedily and atomically" ELSE "greedily"
            ELSE IF IsAtomicByAncestor(s, id) THEN "lazily and atomically" ELSE "lazily"
        bounds ==
            IF node.N = MaxInt32
            THEN IF node.M = 0 THEN " any number of times"
                 ELSE IF node.M = 1 THEN " at least once"
                 ELSE IF node.M = 2 THEN " at least twice"
                 ELSE " at least " \o Itoa(node.M) \o " times"
            ELSE IF node.M = 0
            THEN IF node.N = 1 THEN ", optionally"
                 ELSE " at most " \o Itoa(node.N) \o " times"
            ELSE " at least " \o Itoa(node.M) \o " and at most " \o Itoa(node.N) \o " times"
    IN  IF node.M = node.N THEN "exactly " \o Itoa(node.M) \o " times"
        ELSE style \o bounds

\* The characters of a literal or class as one string.
RECURSIVE Concat(_)
Concat(chars) == IF chars = <<>> THEN "" ELSE Head(chars) \o Concat(Tail(chars))

SetString(node) == (IF node.SetNeg THEN "[^" ELSE "[") \o Concat(node.SetChars) \o "]"

\* A variant whose text depends on what the emitter has written.
describeNodeNumbered(s, id) == "Node " \o Itoa(id) \o " after " \o Itoa(Len(s.real))

describeNode(s, id) ==
    LET node == s.nodes[id]
        rtl == node.Rtl
        direction == IF rtl THEN " right-to-left" ELSE ""
    IN  CASE node.T = "Alternate" ->
                "Match with " \o Itoa(Len(node.Children)) \o " alternative expressions"
                \o (IF IsAtomicByAncestor(s, id) THEN ", atomically" ELSE "") \o "."
          [] node.T = "Atomic" -> "Atomic group."
          [] node.T = "Beginning" -> "Match if at the beginning of the string."
          [] node.T = "Bol" -> "Match if at the beginning of a line."
          [] node.T = "Boundary" -> "Match if at a word boundary."
          [] node.T = "Capture" ->
                IF node.M = -1 /\ node.N # -1
                THEN "Non-capturing balancing group. Uncaptures the "
                     \o describeCapture(s, node.N) \o "."
                ELSE IF node.N # -1
                THEN "Balancing group. Captures the " \o describeCapture(s, node.M)
                     \o " and uncaptures the " \o describeCapture(s, node.N) \o "."
                ELSE describeCapture(s, node.M)
          [] node.T = "Concatenate" -> "Match a sequence of expressions."
          [] node.T = "ECMABoundary" ->
                "Match if at a word boundary (according to ECMAScript rules)."
          [] node.T = "Empty" -> "Match an empty string."
          [] node.T = "End" -> "Match if at the end of the string."
          [] node.T = "EndZ" ->
                "Match if at the end of the string or if before an ending newline."
          [] node.T = "Eol" -> "Match if at the end of a line."
          [] node.T \in {"Loop", "Lazyloop"} ->
                IF node.M = 0 /\ node.N = 1
                THEN "Optional (" \o (IF node.T = "Loop" THEN "greedy" ELSE "lazy") \o ")."
                ELSE "Loop " \o describeLoop(s, id) \o direction \o "."
          [] node.T = "Multi" ->
                "Match the string " \o GoQuote(Concat(node.Str)) \o direction \o "."
          [] node.T = "Nonboundary" -> "Match if at anything other than a word boundary."
          [] node.T = "NonECMABoundary" ->
                "Match if at anything other than a word boundary (according to ECMAScript rules)."
          [] node.T = "Nothing" -> "Fail to match."
          [] node.T = "Notone" ->
                "Match any character other than " \o Quote(node.Ch) \o direction \o "."
          [] node.T \in {"Notoneloop", "Notonelazy"} ->
                "Match a character other than " \o Quote(node.Ch) \o " "
                \o describeLoop(s, id) \o direction \o "."
          [] node.T = "One" -> "Match " \o Quote(node.Ch) \o direction \o "."
          [] node.T \in {"Oneloop", "Onelazy"} ->
                "Match " \o Quote(node.Ch) \o " " \o describeLoop(s, id) \o direction \o "."
          [] node.T = "NegLook" ->
                IF rtl THEN "Zero-width negative lookbehind"
                ELSE "Zero-width negative lookahead"
          [] node.T = "Ref" ->
                "Match the same text as matched by the " \o describeCapture(s, node.M)
                \o direction \o "."
          [] node.T = "PosLook" ->
                IF rtl THEN "Zero-width positive lookbehind"
                ELSE "Zero-width positive lookahead"
          [] node.T = "Set" -> "Match " \o SetString(node) \o direction \o "."
          [] node.T \in {"Setloop", "Setlazy"} ->
                "Match " \o SetString(node) \o " " \o describeLoop(s, id) \o direction \o "."
          [] node.T = "Start" -> "Match if at the start position."
          [] node.T = "ExprCond" ->
                "Conditionally match one of two expressions depending on whether an initial expression matches."
          [] node.T = "BackRefCond" ->
                "Conditionally match one of two expressions depending on whether the "
                \o describeCapture(s, node.M) \o " matched."
          [] node.T = "UpdateBumpalong" -> "Advance the next matching position."
          [] OTHER -> "Unknown node type " \o node.T

\* A variant that takes the group number of the pattern as the slot.
mapCaptureNumberUnmapped(capNum, caps) == capNum

mapCaptureNumber(capNum, caps) ==
    IF capNum = -1 THEN -1
    ELSE IF caps # <<>> THEN caps[capNum]
    ELSE capNum

(***************************************************************************)
(* The recursive emitters.                                                 *)
(***************************************************************************)
RECURSIVE emitExecuteNode(_, _, _, _)
RECURSIVE emitExecuteScoped(_, _, _, _)
RECURSIVE emitExecuteAtomic(_, _, _)
RECURSIVE emitExecuteConcatenation(_, _, _, _)
RECURSIVE emitExecuteNonBacktrackingRepeater(_, _)
RECURSIVE emitExecuteLoop(_, _)
RECURSIVE emitExecuteAlternation(_, _)
RECURSIVE emitExecuteCapture(_, _, _)

\* Bookkeeping for the analysis: what an emitter call that was entered in
\* state `entry` and returns in state s did to doneLabel, and which part of
\* emittedLabels it appended.
Exit(s, emitter, id, entry) ==
    [emitter |-> emitter, node |-> id,
     doneLabelOnEntry |-> entry.doneLabel, doneLabel |-> s.doneLabel,
     staticPosOnEntry |-> entry.sliceStaticPos,
     labelsOnEntry |-> Len(entry.emittedLabels), labelsOnReturn |-> Len(s.emittedLabels),
     linesOnEntry |-> Len(CurrentOut(entry)), linesOnReturn |-> Len(CurrentOut(s))]

Exited(s, emitter, id, entry) ==
    [s EXCEPT !.exits = Append(@, Exit(s, emitter, id, entry))]

\* Bookkeeping for the analysis: the value of sliceStaticPos with which an
\* emitter call returned to the dispatcher.
Returned(s, emitter, id, entry) ==
    [s EXCEPT !.returned = Append(@, [emitter |-> emitter, node |-> id,
                                      sliceStaticPos |-> s.sliceStaticPos]),
              !.exits = Append(@, Exit(s, emitter, id, entry))]

\* The node kinds of emitExecuteNode's last two switches (the kinds written
\* after the node's description), and the panic after them.
emitExecuteScoped(s3, id, subsequent, emitLengthChecksIfRequired) ==
    LET node == s3.nodes[id]
        T == node.T
    IN  CASE T \in {"Beginning", "Start", "Bol", "Eol", "End", "EndZ"} ->
                 emitExecuteAnchors(s3, id)
          [] T \in {"Boundary", "Nonboundary", "ECMABoundary", "NonECMABoundary"} ->
                 emitExecuteBoundary(s3, id)
          [] T \in {"One", "Notone", "Set"} ->
                 emitExecuteSingleChar(s3, id, emitLengthChecksIfRequired, "", FALSE)
          [] T = "Multi" ->
                 emitExecuteMultiCharString(s3, node.Str, emitLengthChecksIfRequired, FALSE,
                                            node.Rtl)
          [] T = "UpdateBumpalong" -> emitExecuteUpdateBumpalong(s3, id)
          [] T \in {"Oneloop", "Notoneloop", "Setloop"} ->
                 Returned(emitExecuteSingleCharLoop(s3, id, subsequent,
                                                    emitLengthChecksIfRequired),
                          "emitExecuteSingleCharLoop", id, s3)
          [] T \in {"Onelazy", "Notonelazy", "Setlazy"} ->
                 Exited(emitExecuteSingleCharLazy(s3, id, subsequent,
                                                  emitLengthChecksIfRequired),
                        "emitExecuteSingleCharLazy", id, s3)
          [] T = "Loop" -> Returned(emitExecuteLoop(s3, id), "emitExecuteLoop", id, s3)
          [] T = "Lazyloop" -> Exited(emitExecuteLazy(s3, id), "emitExecuteLazy", id, s3)
          [] T = "Alternate" ->
                 Returned(emitExecuteAlternation(s3, id), "emitExecuteAlternation", id, s3)
          [] T = "Ref" ->
                 Exited(emitExecuteBackreference(s3, id), "emitExecuteBackreference", id, s3)
          [] T = "BackRefCond" -> emitExecuteBackreferenceConditional(s3, id)
          [] T = "ExprCond" -> emitExecuteExpressionConditional(s3, id)
          [] T = "Capture" ->
                 Returned(emitExecuteCapture(s3, id, subsequent), "emitExecuteCapture", id, s3)
          [] T = "PosLook" -> emitExecutePositiveLookaroundAssertion(s3, id)
          [] T = "NegLook" -> emitExecuteNegativeLookaroundAssertion(s3, id)
          [] OTHER -> Panic(s3, id)

emitExecuteNode(s0, id, subsequent, emitLengthChecksIfRequired) ==
    LET node == s0.nodes[id]
        s == [s0 EXCEPT !.visited = Append(@, id)]
    IN  IF s.literalAfterLoop = id
        THEN sliceInputSpan(
                 writeLines(s, <<Comment("Skip loop already matched in TryFindNextPossibleStartingPosition.", 0),
                                 Assign("=", "pos", "r.Runtrackpos")>>),
                 FALSE)
        ELSE
        Then(writeLine(IF node.Rtl THEN transferSliceStaticPosToPos(s, FALSE) ELSE s,
                       Comment("Node", id)), LAMBDA s2 :
        LET s3 == writeLine(s2, Comment(describeNode(s2, id), id))
        IN  CASE node.T = "Empty" -> s2
              [] node.T = "Nothing" -> emitExecuteGoto(s2, s2.doneLabel)
              [] node.T = "Atomic" ->
                     IF ~MayBacktrack(s2, node.Children[1])
                     THEN Exited(emitExecuteNode(s2, node.Children[1], NoNode, TRUE),
                                 "emitExecuteNode of an atomic child", id, s2)
                     ELSE Exited(emitExecuteAtomic(s3, id, subsequent),
                                 "emitExecuteAtomic", id, s3)
              [] node.T = "Concatenate" ->
                     Exited(emitExecuteConcatenation(s2, id, subsequent,
                                                     emitLengthChecksIfRequired),
                            "emitExecuteConcatenation", id, s2)
              [] OTHER -> emitExecuteScoped(s3, id, subsequent, emitLengthChecksIfRequired))

emitExecuteAtomic(s, id, subsequent) ==
    LET node == s.nodes[id]
        originalDoneLabel == s.doneLabel
    IN  Then(addLocalDec(s, Dec("stackpos")), LAMBDA s1 :
        LET startingStackpos == reservedName(s1, "atomic_stackpos") IN
        Then(writeLine(reserveName(s1, "atomic_stackpos"),
                       Assign("=", startingStackpos, "stackpos")), LAMBDA s2 :
        Then(emitExecuteNode(s2, node.Children[1], subsequent, TRUE), LAMBDA s3 :
        Then(writeLine(s3, Assign("=", "stackpos", startingStackpos)), LAMBDA s4 :
        [s4 EXCEPT !.doneLabel = originalDoneLabel]))))

emitExecuteNonBacktrackingRepeater(s, id) ==
    LET node == s.nodes[id]
    IN  Then(transferSliceStaticPosToPos(s, FALSE), LAMBDA s1 :
        LET i == reservedName(s1, "loop_iteration") IN
        Then(writeLines(reserveName(s1, "loop_iteration"),
                 <<For, Ln("clause", i, "<", "", 0, node.M, <<i \o ":=i", i \o "++">>), Open>>),
             LAMBDA s2 :
        Then(emitExecuteNode(s2, node.Children[1], NoNode, TRUE), LAMBDA s3 :
        writeLine(transferSliceStaticPosToPos(s3, FALSE), Close))))

\* The part of emitExecuteLoop after the iteration-failed section: closing
\* the loop, and the backtracking sections of a non-atomic loop.
LoopTail(s, id, c, childBacktracks) ==
    LET isAtomic == IsAtomicByAncestor(s, id)
        stackCookie == createStackCookie
    IN  IF isAtomic
        THEN Then(emitMarkLabel([s EXCEPT !.doneLabel = c.originalDoneLabel], c.endLoop),
                  LAMBDA a1 :
             IF c.startingStackpos # ""
             THEN writeLine(a1, Assign("=", "stackpos", c.startingStackpos))
             ELSE a1)
        ELSE
        Then(IF childBacktracks
             THEN \* the child backtracks
                  Then(emitExecuteGoto(s, c.endLoop), LAMBDA b1 :
                  LET backtrack == reservedName(b1, "LoopBacktrack") IN
                  Then(emitMarkLabel(reserveName(b1, "LoopBacktrack"), backtrack), LAMBDA b2 :
                  Then(emitTimeoutCheckIfNeeded(b2), LAMBDA b3 :
                  Then(writeLines(b3, <<If, Cl(c.iterationCount, 0, "==", "", 0), Open,
                           Comment("No iterations of the loop remain to backtrack into. Fail the loop.", 0)>>),
                       LAMBDA b4 :
                  Then(writeLine(emitExecuteGoto(b4, c.originalDoneLabel), Close), LAMBDA b5 :
                  Then(emitExecuteGoto(b5, b5.doneLabel), LAMBDA b6 :
                  [b6 EXCEPT !.doneLabel = backtrack]))))))
             ELSE s, LAMBDA n0 :
        Then(emitMarkLabel(n0, c.endLoop), LAMBDA n1 :
        IF ~IsInLoop(n0, id) THEN n1
        ELSE
        \* inside another loop
        Then(IF c.startingPos # "" /\ c.startingStackpos # ""
             THEN emitStackPush(n1, stackCookie,
                                <<c.startingPos, c.startingStackpos, c.iterationCount>>)
             ELSE IF c.startingPos # ""
             THEN emitStackPush(n1, stackCookie, <<c.startingPos, c.iterationCount>>)
             ELSE IF c.startingStackpos # ""
             THEN emitStackPush(n1, stackCookie, <<c.startingStackpos, c.iterationCount>>)
             ELSE emitStackPush(n1, stackCookie, <<c.iterationCount>>), LAMBDA n2 :
        LET end == reservedName(n2, "LoopSkipBacktrack") IN
        Then(emitExecuteGoto(reserveName(n2, "LoopSkipBacktrack"), end), LAMBDA n3 :
        LET backtrack2 == reservedName(n3, "LoopBacktrack") IN
        Then(emitMarkLabel(reserveName(n3, "LoopBacktrack"), backtrack2), LAMBDA n4 :
        Then(IF c.startingPos # "" /\ c.startingStackpos # ""
             THEN emitStackPop(n4, stackCookie,
                               <<c.iterationCount, c.startingPos, c.startingPos>>)
             ELSE IF c.startingPos # ""
             THEN emitStackPop(n4, stackCookie, <<c.iterationCount, c.startingPos>>)
             ELSE IF c.startingStackpos # ""
             THEN emitStackPop(n4, stackCookie, <<c.iterationCount, c.startingStackpos>>)
             ELSE emitStackPop(n4, stackCookie, <<c.iterationCount>>), LAMBDA n5 :
        Then(emitTimeoutCheckIfNeeded(n5), LAMBDA n6 :
        Then(emitExecuteGoto(n6, n6.doneLabel), LAMBDA n7 :
        emitMarkLabel(
            [Pusher(n7, "emitExecuteLoop", id, Len(CurrentOut(n2)), backtrack2)
                EXCEPT !.doneLabel = backtrack2],
            end)))))))))

\* The part of emitExecuteLoop from the iteration-failed label to the
\* minimum-iteration validation.
LoopIterationFailed(s, id, c, childBacktracks) ==
    LET minIterations == s.nodes[id].M
    IN  Then(emitMarkLabel(
                 writeLine(s, Comment("The loop iteration failed. Put state back to the way it was before the iteration.", 0)),
                 c.iterationFailedLabel), LAMBDA s1 :
        Then(writeLines(s1, <<Stmt("--", c.iterationCount, ""),
                              If, Cl(c.iterationCount, 0, "<", "", 0), Open,
                              Comment("Unable to match the remainder of the expression after exhausting the loop.", 0)>>),
             LAMBDA s2 :
        Then(writeLine(emitExecuteGoto(s2, c.originalDoneLabel), Close), LAMBDA s3 :
        Then(IF c.iterationMayBeEmpty
             THEN emitStackPop(s3, 0, <<"pos", c.startingPos>>)
             ELSE emitStackPop(s3, 0, <<"pos">>), LAMBDA s4 :
        Then(IF s4.expressionHasCaptures THEN emitUncaptureUntil(s4, "r.StackPop()") ELSE s4,
             LAMBDA s5 :
        Then(sliceInputSpan(emitStackCookieValidate(s5, c.stackCookie), FALSE), LAMBDA s6 :
        IF minIterations <= 0 THEN s6
        ELSE IF childBacktracks
        THEN \* the child backtracks
             Then(writeLines(s6, <<If, Cl(c.iterationCount, 0, "==", "", 0), Open,
                      Comment("No iterations have been matched to backtrack into. Fail the loop.", 0)>>),
                  LAMBDA b1 :
             Then(writeLine(emitExecuteGoto(b1, c.originalDoneLabel), Close), LAMBDA b2 :
             IF minIterations <= 1 THEN b2
             ELSE
             Then(writeLines(b2, <<If, countIsLessThan(c.iterationCount, minIterations), Open,
                      Comment("All possible iterations have matched, but it's below the required minimum.", minIterations),
                      Comment("Backtrack into the prior iteration.", 0)>>), LAMBDA b3 :
             writeLine(emitExecuteGoto(b3, b3.doneLabel), Close))))
        ELSE \* the child does not backtrack
             Then(writeLines(s6, <<If, countIsLessThan(c.iterationCount, minIterations), Open,
                      Comment("All possible iterations have matched, but it's below the required minimum. Fail the loop.", minIterations)>>),
                  LAMBDA n1 :
             Then(IF minIterations > 1
                  THEN writeLines(n1, <<If, Cl(c.iterationCount, 0, "!=", "", 0), Open,
                           Comment("Ensure any stale backtracking state is removed.", 0),
                           Assign("=", "stackpos", c.startingStackpos), Close>>)
                  ELSE n1, LAMBDA n2 :
             writeLine(emitExecuteGoto(n2, c.originalDoneLabel), Close)))))))))

\* A variant of LoopCondition that continues on the iteration count alone.
LoopConditionCountOnly(s, id, c) ==
    emitExecuteGoto(
        writeLine(emitExecuteGoto(
                      writeLines(s, <<If, countIsLessThan(c.iterationCount, s.nodes[id].N),
                                      Open>>),
                      c.body), Close),
        c.endLoop)

\* The loop condition written after the body of an iteration.
LoopCondition(s, id, c) ==
    LET minIterations == s.nodes[id].M
        maxIterations == s.nodes[id].N
        posMoved == Cl("pos", 0, "!=", c.startingPos, 0)
        cond ==
            IF ~c.iterationMayBeEmpty
            THEN <<Comment("The loop has an upper bound. Continue iterating greedily if it hasn't yet been reached.", maxIterations),
                   If, countIsLessThan(c.iterationCount, maxIterations), Open>>
            ELSE IF minIterations > 0 /\ maxIterations = MaxInt32
            THEN <<Comment("The loop has a lower bound but no upper bound. Continue iterating greedily", minIterations),
                   Comment("if the last iteration wasn't empty (or if it was, if the lower bound hasn't yet been reached).", 0),
                   If, posMoved, Or(""), countIsLessThan(c.iterationCount, minIterations), Open>>
            ELSE IF minIterations > 0
            THEN <<Comment("The loop has a lower bound and an upper bound of {maxIterations}. Continue iterating", minIterations),
                   Comment("greedily if the upper bound hasn't yet been reached and either the last iteration was non-empty or the", 0),
                   Comment("lower bound hasn't yet been reached.", 0),
                   If, LParen, posMoved, Or(""),
                   countIsLessThan(c.iterationCount, minIterations), RParen, And,
                   countIsLessThan(c.iterationCount, maxIterations), Open>>
            ELSE IF maxIterations = MaxInt32
            THEN <<Comment("The loop is unbounded. Continue iterating greedily as long as the last iteration wasn't empty.", 0),
                   If, posMoved, Open>>
            ELSE <<Comment("The loop has an upper bound. Continue iterating greedily if the upper bound hasn't", maxIterations),
                   Comment("yet been reached (as long as the last iteration wasn't empty).", 0),
                   If, posMoved, And, countIsLessThan(c.iterationCount, maxIterations), Open>>
    IN  IF maxIterations = MaxInt32 /\ ~c.iterationMayBeEmpty
        THEN emitExecuteGoto(
                 writeLine(s, Comment("The loop has no upper bound. Continue iterating greedily.", 0)),
                 c.body)
        ELSE emitExecuteGoto(
                 writeLine(emitExecuteGoto(writeLines(s, cond), c.body), Close),
                 c.endLoop)

\* The part of emitExecuteLoop before the body of the iteration: the state it
\* leaves and the names it chose.
LoopHead(s, id) ==
    LET node == s.nodes[id]
        child == node.Children[1]
        minIterations == node.M
        stackCookie == createStackCookie
    IN  Then(transferSliceStaticPosToPos(s, FALSE), LAMBDA s1 :
        LET isAtomic == IsAtomicByAncestor(s1, id)
            needStackpos == isAtomic \/ minIterations > 1
            startingStackpos == IF needStackpos THEN reservedName(s1, "startingStackpos") ELSE ""
        IN
        Then(IF needStackpos
             THEN writeLine(addLocalDec(reserveName(s1, "startingStackpos"), Dec(startingStackpos)),
                            Assign("=", startingStackpos, "stackpos"))
             ELSE s1, LAMBDA s2 :
        LET originalDoneLabel == s2.doneLabel
            body == reservedName(s2, "LoopBody")
            endLoop == reservedName(s2, "LoopEnd")
            iterationCount == reservedName(s2, "loop_iteration")
        IN
        Then(reserveName(reserveName(reserveName(s2, "LoopBody"), "LoopEnd"), "loop_iteration"),
             LAMBDA s3 :
        LET iterationMayBeEmpty == ComputeMinLength(s3.nodes, child) = 0
            startingPos == IF iterationMayBeEmpty THEN reservedName(s3, "loop_starting_pos") ELSE ""
        IN
        Then(IF iterationMayBeEmpty
             THEN writeLine(addLocalDec(reserveName(s3, "loop_starting_pos"),
                                        Dec2(":=", iterationCount, startingPos)),
                            Assign("=", startingPos, "pos"))
             ELSE addLocalDec(s3, Dec(iterationCount)), LAMBDA s4 :
        Then(emitMarkLabel(writeLine(s4, AssignConst("=", iterationCount, 0)), body), LAMBDA s5 :
        Then(IF s5.expressionHasCaptures /\ iterationMayBeEmpty
             THEN emitStackPush(s5, stackCookie, <<"r.Crawlpos()", startingPos, "pos">>)
             ELSE IF s5.expressionHasCaptures
             THEN emitStackPush(s5, stackCookie, <<"r.Crawlpos()", "pos">>)
             ELSE IF iterationMayBeEmpty
             THEN emitStackPush(s5, stackCookie, <<startingPos, "pos">>)
             ELSE emitStackPush(s5, stackCookie, <<"pos">>), LAMBDA s6 :
        Then(writeLine(IF iterationMayBeEmpty
                       THEN writeLine(s6, Assign("=", startingPos, "pos")) ELSE s6,
                       Stmt("++", iterationCount, "")), LAMBDA s8 :
        LET iterationFailedLabel == reservedName(s8, "LoopIterationNoMatch") IN
        [s |-> [Pusher(reserveName(s8, "LoopIterationNoMatch"), "emitExecuteLoop iteration",
                       id, Len(CurrentOut(s6)), iterationFailedLabel)
                   EXCEPT !.doneLabel = iterationFailedLabel,
                          !.loops = Append(@,
                              [node |-> id, originalDoneLabel |-> originalDoneLabel,
                               body |-> body, endLoop |-> endLoop,
                               iterationCount |-> iterationCount,
                               startingPos |-> startingPos,
                               startingStackpos |-> startingStackpos,
                               iterationFailedLabel |-> iterationFailedLabel])],
         stackCookie |-> stackCookie, startingStackpos |-> startingStackpos,
         originalDoneLabel |-> originalDoneLabel, body |-> body, endLoop |-> endLoop,
         iterationCount |-> iterationCount, iterationMayBeEmpty |-> iterationMayBeEmpty,
         startingPos |-> startingPos, iterationFailedLabel |-> iterationFailedLabel])))))))

emitExecuteLoop(s, id) ==
    LET node == s.nodes[id]
        child == node.Children[1]
        minIterations == node.M
        maxIterations == node.N
    IN  IF minIterations = maxIterations /\ minIterations = 0 THEN s
        ELSE IF minIterations = maxIterations /\ minIterations = 1
        THEN emitExecuteNode(s, child, NoNode, TRUE)
        ELSE IF minIterations = maxIterations /\ minIterations > 1 /\ ~MayBacktrack(s, child)
        THEN emitExecuteNonBacktrackingRepeater(s, id)
        ELSE
        Then(LoopHead(s, id), LAMBDA c :
        Then(transferSliceStaticPosToPos(emitExecuteNode(c.s, child, NoNode, TRUE), FALSE),
             LAMBDA s10 :
        LET childBacktracks == s10.doneLabel # c.iterationFailedLabel
        IN  LoopTail(LoopIterationFailed(LoopCondition(s10, id, c), id, c, childBacktracks),
                     id, c, childBacktracks)))

\* Go's string(i) of an integer: the one-character string whose code point
\* is i (not the decimal digits of i).
RuneString(i) == "rune(" \o ToString(i) \o ")"

\* The characters a branch's starting literal can begin with.
StartingChars(lit) == IF IsSetFamily(lit) THEN lit.SetChars ELSE <<FirstCharOfOneOrMulti(lit)>>

\* Whether every branch from the i-th on begins with characters not in `seen`
\* and not shared with another branch.
RECURSIVE BranchesStartUnique(_, _, _, _)
BranchesStartUnique(nodes, id, i, seen) ==
    IF i > Len(nodes[id].Children) THEN TRUE
    ELSE LET lit == FindStartingLiteralNode(nodes, nodes[id].Children[i], FALSE)
             chars == StartingChars(nodes[lit])
             fresh(k) == /\ chars[k] \notin seen
                         /\ \A j \in 1..(k - 1) : chars[j] # chars[k]
         IN  /\ lit # NoNode
             /\ ~IsNotoneFamily(nodes[lit])
             /\ IsSetFamily(nodes[lit]) => ~nodes[lit].SetNeg /\ chars # <<>>
             /\ \A k \in 1..Len(chars) : fresh(k)
             /\ BranchesStartUnique(nodes, id, i + 1, seen \cup RangeOf(chars))

\* A variant that switches only when the alternation is atomic.
UseSwitchedBranchesWhenAtomic(s, id) ==
    /\ ~s.nodes[id].Rtl
    /\ IsAtomicByAncestor(s, id)
    /\ BranchesStartUnique(s.nodes, id, 1, {})

UseSwitchedBranches(s, id) ==
    /\ ~s.nodes[id].Rtl
    /\ \/ IsAtomicByAncestor(s, id)
       \/ \A i \in 1..Len(s.nodes[id].Children) : ~MayBacktrack(s, s.nodes[id].Children[i])
    /\ BranchesStartUnique(s.nodes, id, 1, {})

\* The HandleChild switch for a branch that is the starting literal itself.
SwitchedLiteral(s, child) ==
    LET node == s.nodes[child]
        rest == IF Len(node.Str) = 2
                THEN Node("One", 0, 0, node.Str[2], <<>>, <<>>, FALSE, node.Rtl, <<>>)
                ELSE Node("Multi", 0, 0, "", Tail(node.Str), <<>>, FALSE, node.Rtl, <<>>)
    IN  Then([s EXCEPT !.sliceStaticPos = @ + 1], LAMBDA s1 :
        IF node.T # "Multi" THEN s1
        ELSE
        Then([s1 EXCEPT !.nodes = Append(@, rest)], LAMBDA s2 :
        emitExecuteNode(s2, Len(s2.nodes), NoNode, TRUE)))

\* One case of the switch over the first character: the branch with its
\* starting literal taken off.
SwitchedBranch(s, id, i, startingSliceStaticPos, originalDoneLabel) ==
    Then([s EXCEPT !.sliceStaticPos = startingSliceStaticPos], LAMBDA s0 :
    LET child == s0.nodes[id].Children[i]
        lit == FindStartingLiteralNode(s0.nodes, child, FALSE)
    IN
    Then(writeLine(s0, Ln("case", "char", "", "", 0, 0, StartingChars(s0.nodes[lit]))),
         LAMBDA s1 :
    LET empty == Node("Empty", 0, 0, "", <<>>, <<>>, FALSE, s1.nodes[child].Rtl, <<>>)
        shaved == [s1 EXCEPT !.nodes =
                      [Append(@, empty) EXCEPT ![child].Children[1] = Len(s1.nodes) + 1]]
    IN
    Then(CASE s1.nodes[child].T \in {"One", "Set", "Multi"} -> SwitchedLiteral(s1, child)
           [] s1.nodes[child].T = "Concatenate" ->
                 IF s1.nodes[child].Children[1] = lit
                    /\ s1.nodes[lit].T \in {"One", "Set", "Multi"}
                 THEN emitExecuteNode(SwitchedLiteral(shaved, lit), child, NoNode, TRUE)
                 ELSE s1
           [] OTHER -> emitExecuteNode(s1, child, NoNode, TRUE), LAMBDA s2 :
    transferSliceStaticPosToPos([s2 EXCEPT !.doneLabel = originalDoneLabel], FALSE))))

RECURSIVE SwitchedBranches(_, _, _, _, _)
SwitchedBranches(s, id, i, startingSliceStaticPos, originalDoneLabel) ==
    IF i > Len(s.nodes[id].Children) THEN s
    ELSE SwitchedBranches(
             SwitchedBranch(s, id, i, startingSliceStaticPos, originalDoneLabel),
             id, i + 1, startingSliceStaticPos, originalDoneLabel)

\* A variant of BranchTail whose reset for the next branch leaves pos where
\* the failed branch moved it.
BranchTailKeepingPos(s3, id, i, c, nextBranch) ==
    LET isLastBranch == i = Len(s3.nodes[id].Children) IN
    Then(IF c.isAtomic THEN s3
         ELSE IF c.currentBranch = ""
         THEN IF c.startingCapturePos # ""
              THEN emitStackPush(s3, c.stackCookie + i - 1,
                       <<RuneString(i - 1), c.startingPos, c.startingCapturePos>>)
              ELSE emitStackPush(s3, c.stackCookie + i - 1,
                       <<RuneString(i - 1), c.startingPos>>)
         ELSE writeLine(s3, AssignConst("=", c.currentBranch, i - 1)), LAMBDA s4 :
    Then(transferSliceStaticPosToPos(s4, FALSE), LAMBDA s5 :
    Then(IF ~isLastBranch \/ ~c.isAtomic THEN emitExecuteGoto(s5, c.matchLabel) ELSE s5,
         LAMBDA s6 :
    IF isLastBranch THEN s6
    ELSE Then(sliceInputSpan(emitMarkLabel(s6, nextBranch), FALSE), LAMBDA s7 :
         Then([s7 EXCEPT !.sliceStaticPos = c.startingSliceStaticPos], LAMBDA s8 :
         IF c.startingCapturePos # "" THEN emitUncaptureUntil(s8, c.startingCapturePos)
         ELSE s8)))))

\* What follows a branch of the general strategy: recording the branch for
\* backtracking, the jump to the match label and the reset for the next branch.
BranchTail(s3, id, i, c, nextBranch) ==
    LET isLastBranch == i = Len(s3.nodes[id].Children) IN
    Then(IF c.isAtomic THEN s3
         ELSE IF c.currentBranch = ""
         THEN IF c.startingCapturePos # ""
              THEN emitStackPush(s3, c.stackCookie + i - 1,
                       <<RuneString(i - 1), c.startingPos, c.startingCapturePos>>)
              ELSE emitStackPush(s3, c.stackCookie + i - 1,
                       <<RuneString(i - 1), c.startingPos>>)
         ELSE writeLine(s3, AssignConst("=", c.currentBranch, i - 1)), LAMBDA s4 :
    Then(transferSliceStaticPosToPos(
             IF ~c.isAtomic /\ c.currentBranch = ""
             THEN Pusher(s4, "emitExecuteAlternation", id, Len(CurrentOut(s4)),
                         c.backtrackLabel)
             ELSE s4,
             FALSE), LAMBDA s5 :
    Then(IF ~isLastBranch \/ ~c.isAtomic THEN emitExecuteGoto(s5, c.matchLabel) ELSE s5,
         LAMBDA s6 :
    IF isLastBranch THEN s6
    ELSE Then(sliceInputSpan(
                  writeLine(emitMarkLabel(s6, nextBranch), Assign("=", "pos", c.startingPos)),
                  FALSE), LAMBDA s7 :
         Then([s7 EXCEPT !.sliceStaticPos = c.startingSliceStaticPos], LAMBDA s8 :
         IF c.startingCapturePos # "" THEN emitUncaptureUntil(s8, c.startingCapturePos)
         ELSE s8)))))

\* Bookkeeping for the analysis: a branch of the general strategy whose
\* child was entered in state `entry` and returned in state s3.
Branched(s3, id, i, c, nextBranch, entry) ==
    [s3 EXCEPT !.branches = Append(@,
        [node |-> id, branch |-> i - 1, nextBranch |-> nextBranch,
         originalDoneLabel |-> c.originalDoneLabel, isAtomic |-> c.isAtomic,
         matchLabel |-> c.matchLabel, backtrackLabel |-> c.backtrackLabel,
         startingPos |-> c.startingPos, startingCapturePos |-> c.startingCapturePos,
         startingSliceStaticPos |-> c.startingSliceStaticPos,
         currentBranch |-> c.currentBranch,
         doneLabelOnEntry |-> entry.doneLabel,
         labelMap |-> s3.doneLabel,
         staticPosOnEntry |-> entry.sliceStaticPos,
         linesOnEntry |-> Len(CurrentOut(entry)), linesOnReturn |-> Len(CurrentOut(s3))])]

\* One branch of the general strategy: the state after it and the doneLabel
\* its child left, which is where backtracking into the branch resumes.
Branch(s, id, i, c) ==
    LET isLastBranch == i = Len(s.nodes[id].Children)
        s1 == writeLine(s, Comment("Branch", i - 1))
        nextBranch == IF isLastBranch THEN "" ELSE reservedName(s, "AlternationBranch")
        s2 == IF isLastBranch THEN [s1 EXCEPT !.doneLabel = c.originalDoneLabel]
              ELSE [reserveName(s1, "AlternationBranch") EXCEPT !.doneLabel = nextBranch]
    IN  Then(emitExecuteNode(s2, s.nodes[id].Children[i], NoNode, TRUE), LAMBDA s3 :
        [s |-> BranchTail(Branched(s3, id, i, c, nextBranch, s2), id, i, c, nextBranch),
         doneLabel |-> s3.doneLabel])

\* The branches from the i-th on.  Returns the state and the backtracking table.
RECURSIVE AllBranches(_, _, _, _, _)
AllBranches(s, id, i, c, labelMap) ==
    IF i > Len(s.nodes[id].Children) THEN [s |-> s, labelMap |-> labelMap]
    ELSE Then(Branch(s, id, i, c), LAMBDA b :
         AllBranches(b.s, id, i + 1, c, Append(labelMap, b.doneLabel)))

RECURSIVE CaseGotos(_, _, _)
CaseGotos(s, labelMap, i) ==
    IF i > Len(labelMap) THEN s
    ELSE CaseGotos(emitCaseGoto(s, Ln("case", "int", "", "", i - 1, 0, <<>>), labelMap[i]),
                   labelMap, i + 1)

\* The part of the general strategy before the branches: the state it leaves
\* and the names it chose.
AlternationHead(s, id) ==
    LET originalDoneLabel == s.doneLabel
        isAtomic == IsAtomicByAncestor(s, id)
        matchLabel == reservedName(s, "AlternationMatch")
        startingPos == reservedName(s, "alternation_starting_pos")
    IN  Then(reserveName(reserveName(s, "AlternationMatch"), "alternation_starting_pos"),
             LAMBDA g1 :
        LET canUseLocalsForAllState == ~isAtomic /\ ~IsInLoop(g1, id) IN
        Then(IF canUseLocalsForAllState
             THEN writeLine(addLocalDec(g1, Dec(startingPos)), Assign("=", startingPos, "pos"))
             ELSE writeLine(g1, Assign(":=", startingPos, "pos")), LAMBDA g2 :
        LET startingSliceStaticPos == g2.sliceStaticPos
            needCapturePos == g2.expressionHasCaptures /\ (MayContainCapture(g2, id) \/ ~isAtomic)
            startingCapturePos ==
                IF needCapturePos THEN reservedName(g2, "alternation_starting_capturepos") ELSE ""
        IN
        Then(IF ~needCapturePos THEN g2
             ELSE IF canUseLocalsForAllState
             THEN writeLine(addLocalDec(reserveName(g2, "alternation_starting_capturepos"),
                                        Dec(startingCapturePos)),
                            Assign("=", startingCapturePos, "r.Crawlpos()"))
             ELSE writeLine(reserveName(g2, "alternation_starting_capturepos"),
                            Assign(":=", startingCapturePos, "r.Crawlpos()")), LAMBDA g3 :
        LET backtrackLabel == reservedName(g3, "AlternationBacktrack") IN
        Then(reserveName(g3, "AlternationBacktrack"), LAMBDA g4 :
        LET currentBranch ==
                IF canUseLocalsForAllState THEN reservedName(g4, "alternation_branch") ELSE ""
        IN
        [s |-> IF canUseLocalsForAllState
               THEN addLocalDec(reserveName(g4, "alternation_branch"), Dec(currentBranch))
               ELSE g4,
         originalDoneLabel |-> originalDoneLabel, isAtomic |-> isAtomic,
         matchLabel |-> matchLabel, startingPos |-> startingPos,
         startingSliceStaticPos |-> startingSliceStaticPos,
         startingCapturePos |-> startingCapturePos, currentBranch |-> currentBranch,
         backtrackLabel |-> backtrackLabel, stackCookie |-> createStackCookie]))))

\* The backtracking section of a non-atomic alternation.
AlternationBacktrack(s, c, labelMap) ==
    Then(emitTimeoutCheckIfNeeded(
             emitMarkLabel([s EXCEPT !.doneLabel = c.backtrackLabel], c.backtrackLabel)),
         LAMBDA b1 :
    Then(IF c.currentBranch # "" THEN b1
         ELSE IF c.startingCapturePos # ""
         THEN emitStackPop(b1, 0, <<c.startingCapturePos, c.startingPos>>)
         ELSE emitStackPop(b1, 0, <<c.startingPos>>), LAMBDA b2 :
    LET switchClause ==
            IF c.currentBranch = ""
            THEN validateStackCookieWithAdditionAndReturnPoppedStack(c.stackCookie)
            ELSE c.currentBranch
    IN  writeLine(CaseGotos(writeLine(b2, Ln("switch", switchClause, "", "", 0, 0, <<>>)),
                            labelMap, 1),
                  Close)))

emitExecuteAlternation(s, id) ==
    IF UseSwitchedBranches(s, id)
    THEN \* switched branches
         Then(writeLine(emitSpanLengthCheck(s, 1, ""),
                        Ln("switch", At(s.sliceSpan), "", "", s.sliceStaticPos, 0, <<>>)),
              LAMBDA w1 :
         Then(SwitchedBranches(w1, id, 1, w1.sliceStaticPos, s.doneLabel), LAMBDA w2 :
         writeLine(emitCaseGoto(w2, Stmt("default", "", ""), w2.doneLabel), Close)))
    ELSE \* all branches
         Then(AlternationHead(s, id), LAMBDA c :
         Then(AllBranches(c.s, id, 1, c, <<>>), LAMBDA r :
         emitMarkLabel(IF c.isAtomic THEN [r.s EXCEPT !.doneLabel = c.originalDoneLabel]
                       ELSE AlternationBacktrack(r.s, c, r.labelMap),
                       c.matchLabel)))

\* The part of emitExecuteCapture before the child: the state it leaves and
\* the names it chose.
CaptureHead(s, id) ==
    LET uncapnum == mapCaptureNumber(s.nodes[id].N, s.Tree.Caps)
        isInLoop == IsInLoop(s, id)
    IN  Then(transferSliceStaticPosToPos(s, FALSE), LAMBDA s1 :
        LET startingPos == reservedName(s1, "capture_starting_pos") IN
        Then(IF isInLoop
             THEN writeLine(reserveName(s1, "capture_starting_pos"),
                            Assign(":=", startingPos, "pos"))
             ELSE writeLine(addLocalDec(reserveName(s1, "capture_starting_pos"), Dec(startingPos)),
                            Assign("=", startingPos, "pos")), LAMBDA s2 :
        [s |-> IF uncapnum # -1
               THEN writeLine(
                        emitExecuteGoto(
                            writeLines(s2, <<If, Ln("clause", "r.IsMatched", "", "", uncapnum, 0, <<>>),
                                             Open>>),
                            s2.doneLabel),
                        Close)
               ELSE s2,
         startingPos |-> startingPos, originalDoneLabel |-> s2.doneLabel,
         stackCookie |-> createStackCookie]))

\* The backtracking section of a capture whose child backtracks.
CaptureBacktrack(s6, id, c) ==
    LET isInLoop == IsInLoop(s6, id)
        end == reservedName(s6, "CaptureSkipBacktrack")
        backtrack == reservedName(s6, "CaptureBacktrack")
    IN  Then(emitMarkLabel(
                 reserveName(
                     emitExecuteGoto(
                         reserveName(
                             IF isInLoop
                             THEN Pusher(emitStackPush(s6, c.stackCookie, <<c.startingPos>>),
                                         "emitExecuteCapture", id, Len(CurrentOut(s6)) + 1,
                                         backtrack)
                             ELSE s6,
                             "CaptureSkipBacktrack"),
                         end),
                     "CaptureBacktrack"),
                 backtrack), LAMBDA s9 :
        Then(IF isInLoop THEN emitStackPop(s9, c.stackCookie, <<c.startingPos>>) ELSE s9,
             LAMBDA s10 :
        emitMarkLabel([emitExecuteGoto(s10, s10.doneLabel) EXCEPT !.doneLabel = backtrack], end)))

\* The part of emitExecuteCapture after the child.
CaptureTail(s4, id, c) ==
    LET capnum == mapCaptureNumber(s4.nodes[id].M, s4.Tree.Caps)
        uncapnum == mapCaptureNumber(s4.nodes[id].N, s4.Tree.Caps)
        childBacktracks == s4.doneLabel # c.originalDoneLabel
    IN  Then(writeLine(transferSliceStaticPosToPos(s4, FALSE),
                       IF uncapnum = -1 THEN Capture0(capnum, c.startingPos, "pos")
                       ELSE TransferCapture(capnum, uncapnum, c.startingPos, "pos")),
             LAMBDA s6 :
        IF IsAtomicByAncestor(s6, id) \/ ~childBacktracks
        THEN [s6 EXCEPT !.doneLabel = c.originalDoneLabel]
        ELSE CaptureBacktrack(s6, id, c))

\* Bookkeeping for the analysis: the static offset and the number of lines
\* written when the child of capture id returned.
Spanned(s, id) ==
    [s EXCEPT !.spans = Append(@, [node |-> id, sliceStaticPos |-> s.sliceStaticPos,
                                   lines |-> Len(CurrentOut(s))])]

emitExecuteCapture(s, id, subsequent) ==
    Then(CaptureHead(s, id), LAMBDA c :
    Then(emitExecuteNode(c.s, s.nodes[id].Children[1], subsequent, TRUE), LAMBDA s4 :
    CaptureTail(Spanned(s4, id), id, c)))

\* index is 1-based: the first child after it that is not an UpdateBumpalong.
RECURSIVE getSubsequentOrDefault(_, _, _, _)
getSubsequentOrDefault(index, nodes, id, defaultNode) ==
    IF index + 1 > Len(nodes[id].Children) THEN defaultNode
    ELSE IF nodes[nodes[id].Children[index + 1]].T # "UpdateBumpalong"
    THEN nodes[id].Children[index + 1]
    ELSE getSubsequentOrDefault(index + 1, nodes, id, defaultNode)

\* Bookkeeping for the analysis: code was written for the children
\* i..(i + count - 1) of concatenation id, in that order.
ChildrenEmitted(s, id, i, count) ==
    [s EXCEPT !.children = @ \o [k \in 1..count |-> [node |-> id, child |-> i + k - 1]]]

\* The writePrefix closure of emitExecuteConcatenation.
writePrefix(s, wroteClauses, prevDescription) ==
    IF wroteClauses THEN writeLine(s, Or(prevDescription)) ELSE writeLine(s, If)

\* The unrolled clauses of one fixed-count single-character child.
RECURSIVE UnrolledClauses(_, _, _, _, _, _)
UnrolledClauses(s, child, x, repeatCount, wroteClauses, prevDescription) ==
    IF x >= repeatCount
    THEN [s |-> s, wroteClauses |-> wroteClauses, prevDescription |-> prevDescription]
    ELSE Then(emitExecuteSingleChar(writePrefix(s, wroteClauses, prevDescription),
                                    child, FALSE, "", TRUE), LAMBDA s1 :
         UnrolledClauses(s1, child, x + 1, repeatCount, TRUE,
                         IF x = 0 THEN describeNode(s1, child) ELSE ""))

\* The inner loop over the children of a joined range: clauses are written for
\* as long as the children can be matched by a clause.
RECURSIVE JoinedClauses(_, _, _, _, _, _)
JoinedClauses(s, id, i, exclusiveEnd, wroteClauses, prevDescription) ==
    IF i >= exclusiveEnd
    THEN [s |-> s, i |-> i, wroteClauses |-> wroteClauses, prevDescription |-> prevDescription]
    ELSE LET child == s.nodes[id].Children[i]
             node == s.nodes[child]
             ci == TryGetOrdinalCaseInsensitiveString(s.nodes, id, i, exclusiveEnd)
             repeatCount == IF node.T \in {"One", "Notone", "Set"} THEN 1 ELSE node.M
         IN  IF ci.ok
             THEN Then(writePrefix(s, wroteClauses, prevDescription), LAMBDA p :
                  Then(writeLine(p, Ln("clause", s.sliceSpan \o "[:]", "!StartsWithIgnoreCase",
                                       "", s.sliceStaticPos, 0, ci.str)), LAMBDA c1 :
                  JoinedClauses(ChildrenEmitted([c1 EXCEPT !.sliceStaticPos = @ + Len(ci.str)],
                                                id, i, ci.nodesConsumed), id,
                                i + ci.nodesConsumed, exclusiveEnd, TRUE,
                                "Match the string " \o GoQuote(Concat(ci.str))
                                \o " (ordinal case-insensitive)")))
             ELSE IF node.T = "Multi"
             THEN Then(writePrefix(s, wroteClauses, prevDescription), LAMBDA p :
                  Then(emitExecuteMultiCharString(p, node.Str, FALSE, TRUE, FALSE), LAMBDA m1 :
                  JoinedClauses(ChildrenEmitted(m1, id, i, 1), id, i + 1, exclusiveEnd, TRUE,
                                describeNode(m1, child))))
             ELSE IF (IsOneFamily(node) \/ IsNotoneFamily(node) \/ IsSetFamily(node))
                     /\ node.M = node.N /\ node.M <= MaxUnrollSize
             THEN Then(UnrolledClauses(s, child, 0, repeatCount, wroteClauses, prevDescription),
                       LAMBDA u :
                  JoinedClauses(ChildrenEmitted(u.s, id, i, 1), id, i + 1, exclusiveEnd,
                                u.wroteClauses, u.prevDescription))
             ELSE [s |-> s, i |-> i, wroteClauses |-> wroteClauses,
                   prevDescription |-> prevDescription]

\* The loop "for i < exclusiveEnd" over a joined range.
RECURSIVE JoinedRange(_, _, _, _, _, _, _)
JoinedRange(s, id, i, exclusiveEnd, wroteClauses, prevDescription, subsequent) ==
    IF i >= exclusiveEnd THEN [s |-> s, i |-> i, prevDescription |-> prevDescription]
    ELSE
    Then(JoinedClauses(s, id, i, exclusiveEnd, wroteClauses, prevDescription), LAMBDA c :
    LET prev == IF c.wroteClauses THEN "" ELSE c.prevDescription IN
    Then(IF c.wroteClauses
         THEN writeLine(
                  emitExecuteGoto(writeLine(c.s, Stmt("{", "", c.prevDescription)),
                                  c.s.doneLabel),
                  Close)
         ELSE c.s, LAMBDA s1 :
    IF c.i < exclusiveEnd
    THEN Then(emitExecuteNode(s1, s1.nodes[id].Children[c.i],
                              getSubsequentOrDefault(c.i, s1.nodes, id, subsequent), FALSE),
              LAMBDA s2 :
         JoinedRange(ChildrenEmitted(s2, id, c.i, 1), id, c.i + 1, exclusiveEnd, FALSE, prev,
                     subsequent))
    ELSE JoinedRange(s1, id, c.i, exclusiveEnd, FALSE, prev, subsequent)))

\* The loop "for i := 0; i < len(node.Children); i++": a joined range from
\* child i when there is one, the child itself otherwise.
RECURSIVE ConcatenationFrom(_, _, _, _, _, _)
\* A variant of the loop that does not step back after a joined range, so
\* that the loop's increment passes over the child after it.
ConcatenationFromSkipping(s, id, i, subsequent, emitLengthChecksIfRequired, prevDescription) ==
    IF i > Len(s.nodes[id].Children) THEN s
    ELSE LET r == TryGetJoinableLengthCheckChildRange(s.nodes, id, i)
         IN  IF ~s.nodes[id].Rtl /\ emitLengthChecksIfRequired /\ r.ok
             THEN Then(writeLines(s, <<If, spanLengthCheck(s, r.requiredLength, "")>>),
                       LAMBDA s1 :
                  Then(JoinedRange(s1, id, i, r.exclusiveEnd, TRUE, prevDescription, subsequent),
                       LAMBDA j :
                  ConcatenationFrom(
                      [j.s EXCEPT !.joined = Append(@,
                          [node |-> id, first |-> i, exclusiveEnd |-> r.exclusiveEnd,
                           requiredLength |-> r.requiredLength,
                           staticPosOnEntry |-> s.sliceStaticPos,
                           staticPosOnReturn |-> j.s.sliceStaticPos,
                           linesOnEntry |-> Len(CurrentOut(s)),
                           linesOnReturn |-> Len(CurrentOut(j.s))])],
                      id, j.i + 1, subsequent, emitLengthChecksIfRequired, j.prevDescription)))
             ELSE Then(emitExecuteNode(s, s.nodes[id].Children[i],
                                       getSubsequentOrDefault(i, s.nodes, id, subsequent),
                                       emitLengthChecksIfRequired), LAMBDA s2 :
                  ConcatenationFrom(ChildrenEmitted(s2, id, i, 1), id, i + 1, subsequent,
                                    emitLengthChecksIfRequired, prevDescription))

ConcatenationFrom(s, id, i, subsequent, emitLengthChecksIfRequired, prevDescription) ==
    IF i > Len(s.nodes[id].Children) THEN s
    ELSE LET r == TryGetJoinableLengthCheckChildRange(s.nodes, id, i)
         IN  IF ~s.nodes[id].Rtl /\ emitLengthChecksIfRequired /\ r.ok
             THEN Then(writeLines(s, <<If, spanLengthCheck(s, r.requiredLength, "")>>),
                       LAMBDA s1 :
                  Then(JoinedRange(s1, id, i, r.exclusiveEnd, TRUE, prevDescription, subsequent),
                       LAMBDA j :
                  ConcatenationFrom(
                      [j.s EXCEPT !.joined = Append(@,
                          [node |-> id, first |-> i, exclusiveEnd |-> r.exclusiveEnd,
                           requiredLength |-> r.requiredLength,
                           staticPosOnEntry |-> s.sliceStaticPos,
                           staticPosOnReturn |-> j.s.sliceStaticPos,
                           linesOnEntry |-> Len(CurrentOut(s)),
                           linesOnReturn |-> Len(CurrentOut(j.s))])],
                      id, j.i, subsequent, emitLengthChecksIfRequired, j.prevDescription)))
             ELSE Then(emitExecuteNode(s, s.nodes[id].Children[i],
                                       getSubsequentOrDefault(i, s.nodes, id, subsequent),
                                       emitLengthChecksIfRequired), LAMBDA s2 :
                  ConcatenationFrom(ChildrenEmitted(s2, id, i, 1), id, i + 1, subsequent,
                                    emitLengthChecksIfRequired, prevDescription))

emitExecuteConcatenation(s, id, subsequent, emitLengthChecksIfRequired) ==
    ConcatenationFrom(s, id, 1, subsequent, emitLengthChecksIfRequired, "")

(***************************************************************************)
(* emitExecute.                                                            *)
(***************************************************************************)
Header == Ln("func", "Execute", "", "", 0, 0, <<>>)

\* A variant of the deferred flush that writes the body before the declarations.
FlushScratchBodyFirst(s) ==
    [s EXCEPT !.out = "real",
              !.real = @ \o s.buf \o s.additionalDeclarations,
              !.additionalDeclarations = <<>>]

\* The second deferred function: restore the sink, write the queued
\* declarations to it, clear them, then write the scratch buffer.
FlushScratch(s) ==
    [s EXCEPT !.out = "real",
              !.real = @ \o s.additionalDeclarations \o s.buf,
              !.additionalDeclarations = <<>>]

\* The first deferred function: the closing brace of the procedure.
CloseProcedure(s) == writeLine(s, Close)

\* A variant of the Empty shortcut that also advances the runner position.
emitExecuteEmptyAdvancing(s) ==
    writeLines(s, <<Assign("var", "pos", "r.Runtextpos"),
                    Assign("=", "r.Runtextpos", "pos"),
                    Capture0(0, "pos", "pos"),
                    ReturnNil("")>>)

\* Root Empty: a capture of length 0 at the current position.
emitExecuteEmpty(s) ==
    writeLines(s, <<Comment("The pattern matches the empty string", 0),
                    Assign("var", "pos", "r.Runtextpos"),
                    Capture0(0, "pos", "pos"),
                    ReturnNil("")>>)

\* Root Nothing.
emitExecuteNothing(s) == writeLine(s, ReturnNil(""))

\* A variant of the fixed-atom shortcut that always advances by one character.
emitExecuteFixedAtomByOne(s) ==
    LET op == IF s.Options.RightToLeft THEN "-" ELSE "+"
    IN  writeLines(s, <<Assign("var", "start", "r.Runtextpos"),
                        AssignOffset("var", "end", "r.Runtextpos", op, 1),
                        Assign("=", "r.Runtextpos", "end"),
                        Capture0(0, "start", "end"),
                        ReturnNil("")>>)

\* Root One, Notone, Set or Multi: the find optimization did the whole match.
emitExecuteFixedAtom(s) ==
    LET rootNode == s.nodes[s.nodes[1].Children[1]]
        op == IF s.Options.RightToLeft THEN "-" ELSE "+"
        jmp == IF rootNode.T = "Multi" THEN Len(rootNode.Str) ELSE 1
    IN  writeLines(s, <<Comment("the search in findFirstChar did the entire match", 0),
                        Assign("var", "start", "r.Runtextpos"),
                        AssignOffset("var", "end", "r.Runtextpos", op, jmp),
                        Assign("=", "r.Runtextpos", "end"),
                        Capture0(0, "start", "end"),
                        ReturnNil("")>>)

\* The locals declared at the top of the body and the initial emitter state.
emitExecutePrologue(s) ==
    Then([s EXCEPT !.usedNames = [p \in NamePrefixes |-> 0],
                   !.out = "buf", !.buf = <<>>, !.sliceSpan = "slice"], LAMBDA g1 :
    Then(writeLines(g1, <<Assign(":=", "pos", "r.Runtextpos"),
                          Assign(":=", "matchStart", "pos")>>), LAMBDA g2 :
    Then(sliceInputSpan([g2 EXCEPT !.sliceStaticPos = 0], TRUE), LAMBDA g3 :
    Then([reserveName(g3, "NoMatch") EXCEPT
             !.doneLabel = reservedName(g3, "NoMatch"),
             !.topLevelDoneLabel = reservedName(g3, "NoMatch")], LAMBDA g4 :
    [g4 EXCEPT !.expressionHasCaptures = MayContainCapture(g4, g4.nodes[1].Children[1])]))))

\* A variant of the epilogue that forgets the pending static offset.
emitExecuteEpilogueWithoutOffset(s) ==
    writeLines(s, <<Assign("=", "r.Runtextpos", "pos"),
                    Capture0(0, "matchStart", "pos"),
                    ReturnNil("")>>)

\* What is written after the dispatcher returned: the expression matched.
emitExecuteEpilogue(s) ==
    Then(writeLine(s, Comment("The input matched.", 0)), LAMBDA g7 :
    Then(IF g7.sliceStaticPos > 0 THEN emitAddStmt(g7, "pos", g7.sliceStaticPos) ELSE g7,
         LAMBDA g8 :
    writeLines(g8, <<Assign("=", "r.Runtextpos", "pos"),
                     Capture0(0, "matchStart", "pos"),
                     ReturnNil("")>>)))

\* The general path of emitExecute up to the return of the dispatcher or the
\* panic in it: the state the deferred functions then see.  A panic unwinds
\* from where it was raised.
emitExecuteBody(h) ==
    Then(emitExecutePrologue(h), LAMBDA g5 :
    Then(emitExecuteNode(g5, h.nodes[1].Children[1], NoNode, TRUE), LAMBDA g6 :
    IF g6.panic # <<>>
    THEN [g6.panic[1].at[1] EXCEPT !.panic = <<[node |-> g6.panic[1].node, at |-> <<>>]>>]
    ELSE emitExecuteEpilogue([g6 EXCEPT !.pending = g6.sliceStaticPos,
                                        !.matched = Len(g6.buf)])))

emitExecute(s) ==
    Then(writeLine([s EXCEPT !.base = Len(s.real), !.visited = <<>>, !.markedAt = <<>>,
                             !.returned = <<>>, !.exits = <<>>, !.treeOnEntry = s.nodes,
                             !.spans = <<>>,
                             !.loops = <<>>, !.charLoops = <<>>,
                             !.joined = <<>>, !.children = <<>>, !.branches = <<>>,
                             !.pushers = <<>>, !.pending = 0,
                             !.matched = 0,
                             !.queued = <<>>, !.body = <<>>],
                   Header), LAMBDA h :
    LET rootNode == h.nodes[h.nodes[1].Children[1]] IN
    IF rootNode.T = "Empty" THEN CloseProcedure(emitExecuteEmpty(h))
    ELSE IF rootNode.T = "Nothing" THEN CloseProcedure(emitExecuteNothing(h))
    ELSE IF rootNode.T \in {"Multi", "One", "Notone", "Set"}
    THEN CloseProcedure(emitExecuteFixedAtom(h))
    ELSE Then(emitExecuteBody(h), LAMBDA unwound :
         CloseProcedure(FlushScratch([unwound EXCEPT
                                         !.queued = unwound.additionalDeclarations,
                                         !.body = unwound.buf]))))

(***************************************************************************)
(* Trees.  An expression is a sequence of nodes whose first node is its    *)
(* top; the combinators below build larger expressions from smaller ones.  *)
(***************************************************************************)
Shift(nodes, k) ==
    [i \in 1..Len(nodes) |->
        [nodes[i] EXCEPT !.Children = [j \in 1..Len(nodes[i].Children) |->
                                          nodes[i].Children[j] + k]]]

Single(node) == <<node>>

\* A one-child node around the expression e.
Wrap(node, e) == <<[node EXCEPT !.Children = <<2>>]>> \o Shift(e, 1)

\* A two-child node over the expressions e1 and e2.
Join(node, e1, e2) ==
    <<[node EXCEPT !.Children = <<2, 2 + Len(e1)>>]>>
    \o Shift(e1, 1) \o Shift(e2, 1 + Len(e1))

\* A three-child node.
Join3(node, e1, e2, e3) ==
    <<[node EXCEPT !.Children = <<2, 2 + Len(e1), 2 + Len(e1) + Len(e2)>>]>>
    \o Shift(e1, 1) \o Shift(e2, 1 + Len(e1)) \o Shift(e3, 1 + Len(e1) + Len(e2))

\* The tree of an expression: the implicit root Capture over it.
TreeOf(e) == <<Root>> \o Shift(e, 1)

Concatenate == Group("Concatenate", <<>>)

Alternate == Group("Alternate", <<>>)

Atomic == Group("Atomic", <<>>)

(***************************************************************************)
(* The trees the emitter is run on.                                        *)
(***************************************************************************)
\* Largest minimum iteration count of a loop.
MaxMin == 2

\* Longest multi-character literal.
MaxMultiLen == 3

\* How many times emitExecute is called on one regexpData.
MaxProcedures == 2

\* The iteration bounds (m, n) of loops: n is m, m + 1 or unbounded.
LoopBounds ==
    {<<m, n>> \in (0..MaxMin) \X ((0..(MaxMin + 1)) \cup {MaxInt32}) :
        n = m \/ n = m + 1 \/ n = MaxInt32}

Literal(len) == [i \in 1..len |-> IF i % 2 = 1 THEN "a" ELSE "b"]

CharNodes == {One("a"), Notone("a"), SetOf(<<"a", "b">>)}
             \cup {Multi(Literal(len)) : len \in 2..MaxMultiLen}

CharLoopNodes ==
    {Oneloop("a", b[1], b[2]) : b \in {x \in LoopBounds : x[2] >= 1}}
    \cup {Notoneloop("a", 0, MaxInt32), Setloop(<<"a", "b">>, 0, MaxInt32),
          Setloop(<<"a", "b">>, 1, 2)}

ZeroWidthNodes ==
    {Leaf(t) : t \in {"Empty", "Nothing", "Beginning", "Start", "Bol", "Eol", "End",
                      "EndZ", "Boundary", "UpdateBumpalong"}}

\* Kinds without an emitter body (Onelazy, Ref) and a kind the dispatcher
\* does not know.
OtherNodes == {Node("Onelazy", 0, 1, "a", <<>>, <<>>, FALSE, FALSE, <<>>),
               Leaf("Ref"), Leaf("Unknown")}

LeafNodes == CharNodes \cup CharLoopNodes \cup ZeroWidthNodes \cup OtherNodes

\* The leaves that larger expressions are composed from.
CoreNodes == {One("a"), Multi(Literal(2)), Oneloop("a", 0, 1), Oneloop("a", 0, MaxInt32),
              Oneloop("b", 1, MaxInt32), Leaf("Unknown")}

Wrappers == {Capture(1, -1, 0), Atomic} \cup {Loop(b[1], b[2], 0) : b \in LoopBounds}

Joiners == {Concatenate, Alternate}

Leaves == {Single(n) : n \in LeafNodes}

Cores == {Single(n) : n \in CoreNodes}

Wrapped == {Wrap(w, e) : w \in Wrappers, e \in Leaves}

Joined == {Join(j, e1, e2) : j \in Joiners, e1 \in Cores, e2 \in Leaves}
          \cup {Join(j, e1, e2) : j \in Joiners, e1 \in Leaves, e2 \in Cores}

\* A construct inside a loop, a capture or an atomic group.
Nested ==
    {Wrap(o, Wrap(w, e)) : o \in {Loop(0, MaxInt32, 0), Capture(2, -1, 0), Atomic},
                           w \in Wrappers, e \in Cores}
    \cup {Wrap(o, Join(j, e1, e2)) : o \in {Loop(0, MaxInt32, 0), Capture(2, -1, 0), Atomic},
                                     j \in Joiners, e1 \in Cores, e2 \in Cores}
    \cup {Wrap(Loop(0, MaxInt32, 0), Join(Alternate, Wrap(Capture(1, -1, 0), e1), e2)) :
             e1 \in Cores, e2 \in Cores}
    \cup {Wrap(Loop(0, MaxInt32, 0),
                Join(Alternate, Wrap(Capture(1, -1, 0), e1),
                     Wrap(Loop(MaxMin, MaxMin + 1, 0), e2))) :
             e1 \in Cores, e2 \in Cores}

\* A construct with something before and after it.
Followed ==
    {Join(Concatenate, Wrap(w, e1), e2) : w \in Wrappers, e1 \in Cores, e2 \in Cores}
    \cup {Join3(Concatenate, Single(One("b")), Join(Alternate, e1, e2), Single(One("b"))) :
             e1 \in Cores, e2 \in Cores}
    \cup {Join3(Concatenate, e1, e2, Single(One("b"))) : e1 \in Cores, e2 \in Cores}
    \cup {Join(Concatenate, Single(One("b")), Wrap(w, e)) : w \in Wrappers, e \in Cores}

\* What an atomic group is put around: expressions that backtrack.
AtomicBodies ==
    {Join(Alternate, Single(Oneloop("a", 0, MaxInt32)), Single(One("a"))),
     Join(Concatenate, Single(Oneloop("a", 0, MaxInt32)), Single(Oneloop("b", 1, MaxInt32)))}

\* An atomic group whose child backtracks, with something after it.
AtomicFollowed ==
    {Join(Concatenate, Wrap(Atomic, Join(j, e1, e2)), e3) :
        j \in Joiners,
        e1 \in {Single(Oneloop("a", 0, MaxInt32)), Single(Oneloop("b", 1, MaxInt32))},
        e2 \in {Single(One("a")), Single(Oneloop("a", 0, 1))},
        e3 \in {Single(One("b")), Single(Oneloop("a", 0, MaxInt32))}}

\* Branches that begin with "c", and branches that begin with "d" or "e": as
\* the literal itself, as a concatenation that starts with the literal, and as
\* a concatenation that starts with a loop or a capture of it.
BranchesOnC ==
    {Single(One("c")), Single(Multi(<<"c", "a">>)), Single(Multi(<<"c", "a", "b">>)),
     Join(Concatenate, Single(One("c")), Single(One("a"))),
     Join(Concatenate, Single(Multi(<<"c", "a">>)), Single(One("b"))),
     Wrap(Capture(1, -1, 0), Single(One("c")))}

BranchesOnD ==
    {Single(One("d")), Single(SetOf(<<"d", "e">>)), Single(Oneloop("d", 1, MaxInt32)),
     Single([SetOf(<<"d">>) EXCEPT !.SetNeg = TRUE]), Single(Notone("d")),
     Single(One("c")),
     Join(Concatenate, Single(SetOf(<<"d", "e">>)), Single(One("a"))),
     Join(Concatenate, Single(Oneloop("d", 1, MaxInt32)), Single(One("a"))),
     Join(Concatenate, Wrap(Capture(2, -1, 0), Single(One("d"))), Single(One("a")))}

\* Alternations over branches with distinct and with shared first characters:
\* alone, with a third branch, and with something before and after them.
Alternations ==
    {Join(Alternate, e1, e2) : e1 \in BranchesOnC, e2 \in BranchesOnD}
    \cup {Join3(Alternate, e1, e2, Single(Multi(<<"f", "a", "b">>))) :
             e1 \in BranchesOnC, e2 \in BranchesOnD}
    \cup {Join3(Concatenate, Single(One("b")), Join(Alternate, e1, e2), Single(One("b"))) :
             e1 \in BranchesOnC, e2 \in BranchesOnD}

\* Fixed-count repeats of one character: up to the unroll bound and beyond
\* it, alone and between other children of a concatenation.
FixedRepeats ==
    {Oneloop("a", k, k) : k \in {MaxMin, MaxUnrollSize, MaxUnrollSize + 1}}
    \cup {Setloop(<<"a", "b">>, MaxMin, MaxMin), Notoneloop("a", MaxMin, MaxMin)}

Repeats ==
    {Single(r) : r \in FixedRepeats}
    \cup {Join3(Concatenate, e1, Single(r), e3) :
             e1 \in {Single(One("a")), Single(Multi(Literal(2))),
                     Single(Oneloop("a", 0, MaxInt32))},
             r \in FixedRepeats,
             e3 \in {Single(One("b")), Single(Oneloop("b", MaxMin, MaxMin)),
                     Single(Leaf("Empty"))}}

\* Lazy loops with something after them that can fail.
Lazyloop(m, n, kid) == Node("Lazyloop", m, n, "", <<>>, <<>>, FALSE, FALSE, <<kid>>)

Lazies ==
    {Join(Concatenate, l, e) :
        l \in {Wrap(Lazyloop(b[1], b[2], 0), k) :
                  b \in {<<0, MaxInt32>>, <<1, MaxInt32>>, <<MaxMin, MaxMin + 2>>},
                  k \in {Single(One("a")), Single(Multi(Literal(2))),
                         Wrap(Capture(1, -1, 0), Single(One("a")))}}
               \cup {Single(Node(t, b[1], b[2], "a", <<>>, <<"a", "b">>, FALSE, FALSE, <<>>)) :
                        t \in {"Onelazy", "Notonelazy", "Setlazy"},
                        b \in {<<0, MaxInt32>>, <<MaxMin, MaxMin + 2>>}},
        e \in {Single(One("b")), Single(Leaf("End"))}}

\* A backreference to a group captured before it.
Backreference(capnum) == [Leaf("Ref") EXCEPT !.M = capnum]

Backreferences ==
    {Join(Concatenate, Wrap(Capture(n, -1, 0), e), Single(Backreference(n))) :
        n \in {1, 2}, e \in {Single(One("a")), Single(Oneloop("a", 0, MaxInt32))}}

\* A balancing group after the group it uncaptures: (?<2-1>...) and (?<-1>...).
Balancing ==
    {Join(Concatenate, Wrap(Capture(1, -1, 0), e1), Wrap(Capture(m, 1, 0), e2)) :
        m \in {2, -1},
        e1 \in {Single(One("a")), Single(Oneloop("a", 0, MaxInt32))},
        e2 \in {Single(One("b")), Single(Multi(Literal(2))), Single(Oneloop("a", 0, MaxInt32))}}

\* Sets that hold both cases of one letter, which a concatenation matches
\* as one case-insensitive string: two of them before, after and between
\* other children.
BothCases(ch) == SetOf(IF ch = "a" THEN <<"A", "a">> ELSE <<"B", "b">>)

CaseInsensitive ==
    {Join(Concatenate, Single(BothCases("a")), Single(BothCases("b")))}
    \cup {Join3(Concatenate, Single(BothCases("a")), Single(BothCases("b")), e) :
             e \in {Single(One("b")), Single(BothCases("a")), Single(Oneloop("a", 0, 1)),
                    Single(Oneloop("a", MaxUnrollSize + 1, MaxUnrollSize + 1))}}
    \cup {Join3(Concatenate, e, Single(BothCases("a")), Single(BothCases("b"))) :
             e \in {Single(One("b")), Single(Multi(Literal(2))), Single(Oneloop("a", 0, 1)),
                    Single(Oneloop("a", MaxUnrollSize + 1, MaxUnrollSize + 1))}}

\* Two atomic groups, one after the other and one inside the other.
TwoAtomics ==
    {Join(Concatenate, Wrap(Atomic, e1), Wrap(Atomic, e2)) :
        e1 \in AtomicBodies, e2 \in AtomicBodies}
    \cup {Wrap(Atomic, Join(Concatenate, Wrap(Atomic, e1), e2)) :
              e1 \in AtomicBodies, e2 \in AtomicBodies}

Expressions ==
    Leaves \cup Wrapped \cup Joined \cup Nested \cup Followed \cup AtomicFollowed
    \cup Alternations \cup Repeats \cup Lazies \cup Backreferences \cup Balancing
    \cup CaseInsensitive \cup TwoAtomics

\* The same expression under RegexOptions.RightToLeft: every node carries
\* the option.
AllRightToLeft(e) == [i \in 1..Len(e) |-> RightToLeft(e[i])]

RightToLeftExpressions ==
    {AllRightToLeft(e) : e \in Leaves \cup Wrapped}
    \cup {AllRightToLeft(Join(Alternate, Single(One("c")), e)) : e \in BranchesOnD}

\* A set loop followed by a literal, for which the find optimization has
\* already matched the loop (LiteralAfterLoop_LeftToRight).
LiteralAfterLoopExpressions ==
    {Join(Concatenate, Single(Setloop(<<"a", "b">>, 0, MaxInt32)), e) :
        e \in {Single(One("c")), Single(Multi(<<"c", "d">>))}}

\* Groups with explicit numbers, (?<5>...)(?<7>...) and (?<7-5>...): the
\* tree's Caps maps the numbers in the pattern to consecutive slots.
NumberedTree ==
    [Caplist |-> <<>>, Capnumlist |-> <<0, 5, 7>>, Caps |-> (0 :> 0 @@ 5 :> 1 @@ 7 :> 2),
     Captop |-> 8]

NumberedExpressions ==
    {Join3(Concatenate, e0, Wrap(Capture(5, -1, 0), e1), Wrap(Capture(7, u, 0), e2)) :
        u \in {-1, 5},
        e0 \in {Single(One("b")), Single(Leaf("Empty"))},
        e1 \in {Single(One("a")), Single(Oneloop("a", 0, MaxInt32))},
        e2 \in {Single(One("b")), Single(Oneloop("a", 0, MaxInt32))}}

\* Unnamed groups with every number up to MaxCapNum, and a pattern with the
\* named group (?<word>...) after an unnamed one.
ManyGroupsTree ==
    [Caplist |-> <<>>, Capnumlist |-> <<>>, Caps |-> <<>>, Captop |-> MaxCapNum + 1]

NamedTree ==
    [Caplist |-> <<"0", "1", "word">>, Capnumlist |-> <<>>, Caps |-> <<>>, Captop |-> 3]

GroupExpressions(groups) ==
    UNION {{Join(Concatenate, Wrap(Capture(n, -1, 0), Single(One("a"))), e) :
               e \in {Single(One("b")), Single(Backreference(n))}} : n \in groups}

(***************************************************************************)
(* The run of an emitted procedure.  The statements of the body are        *)
(* executed on an input by a runner that owns the input, the backtracking  *)
(* stack (stackpos is its depth) and the capture crawl.  slice is always a *)
(* suffix of the input and is kept as the position where it begins.        *)
(*   status  idle | running | matched | failed |                           *)
(*           panic        (a Go run-time panic: index or slice bounds out  *)
(*                         of range, pop of an empty stack) |              *)
(*           unsupported  (a statement outside the ones modelled here, or  *)
(*                         one that does not compile)                      *)
(***************************************************************************)
\* Longest input a procedure is run on, and the most labelled sections one
\* run may execute.
MaxInput == 3

MaxSections == 1000

Inputs == UNION {[1..n -> {"a", "b"}] : n \in 0..MaxInput}

Idle ==
    [status |-> "idle", at |-> 0, from |-> 0, sections |-> 0, input |-> <<>>,
     start |-> 0, textpos |-> 0, locals |-> <<>>, slice |-> 0, stack |-> <<>>,
     crawl |-> <<>>, before |-> <<>>]

AssignmentOps == {"=", ":=", "var", "++", "--", "+=", "-="}

RunnerNames == {"slice", "stackpos", "r.Runtextpos"}

\* The integer locals of a body: pos and whatever the body assigns.
LocalsOf(body) ==
    ({"pos"} \cup {body[i].a : i \in {j \in 1..Len(body) :
                                        \/ body[j].op \in AssignmentOps
                                        \/ body[j].args = <<"i:=0", "i++">>}})
        \ RunnerNames

NewRun(body, input, start) ==
    [Idle EXCEPT !.status = "running", !.at = 1, !.input = input, !.start = start,
                 !.textpos = start, !.locals = [x \in LocalsOf(body) |-> 0]]

\* What a section is compared with: the state it began in.
Entered(r) ==
    [locals |-> r.locals, slice |-> r.slice, stack |-> r.stack, crawl |-> r.crawl]

Stopped(r, status) == [r EXCEPT !.status = status]

Known(r, name) ==
    \/ name \in {"", "r.Runtextpos", "r.Runtextstart", "r.Runtextend", "r.Runtextlen",
                 "r.Crawlpos()", "stackpos", "len(slice)"}
    \/ name \in DOMAIN r.locals

IntValue(r, name) ==
    CASE name = "" -> 0
      [] name = "r.Runtextpos" -> r.textpos
      [] name = "r.Runtextstart" -> r.start
      [] name \in {"r.Runtextend", "r.Runtextlen"} -> Len(r.input)
      [] name = "r.Crawlpos()" -> Len(r.crawl)
      [] name = "stackpos" -> Len(r.stack)
      [] name = "len(slice)" -> Len(r.input) - r.slice
      [] OTHER -> r.locals[name]

\* name = v.
SetValue(r, name, v) ==
    IF name = "stackpos"
    THEN IF v \in 0..Len(r.stack) THEN [r EXCEPT !.stack = SubSeq(@, 1, v)]
         ELSE Stopped(r, "panic")
    ELSE IF name = "r.Runtextpos" THEN [r EXCEPT !.textpos = v]
    ELSE IF name \in DOMAIN r.locals THEN [r EXCEPT !.locals[name] = v]
    ELSE Stopped(r, "unsupported")

\* name = r.StackPop().
Popped(r, name) ==
    IF r.stack = <<>> THEN Stopped(r, "panic")
    ELSE SetValue([r EXCEPT !.stack = SubSeq(@, 1, Len(@) - 1)], name,
                  r.stack[Len(r.stack)].v)

\* r.StackPush(args...): the values are pushed in the order written.
Pushed(r, args) ==
    IF \E i \in 1..Len(args) : ~Known(r, args[i]) THEN Stopped(r, "unsupported")
    ELSE [r EXCEPT !.stack = @ \o [i \in 1..Len(args) |->
                                      [v |-> IntValue(r, args[i]), by |-> r.at]]]

\* r.UncaptureUntil(depth): captures above the depth are removed.
Uncaptured(r, depth) ==
    IF depth < Len(r.crawl) THEN [r EXCEPT !.crawl = SubSeq(@, 1, IF depth < 0 THEN 0 ELSE depth)]
    ELSE r

\* The helpers.*IndexOf* searches of input[lo:hi] (positions from 0): the
\* first or last index, from lo, at which the literal begins or a character
\* is (not) one of the characters given; -1 when there is none.
IndexOfHits(r, lo, hi, fn, args) ==
    LET chr(i) == r.input[lo + i + 1]
        among == {i \in 0..(hi - lo - 1) : \E k \in 1..Len(args) : chr(i) = args[k]}
        except == (0..(hi - lo - 1)) \ among
    IN  CASE fn \in {"helpers.IndexOf", "helpers.LastIndexOf"} ->
                 {i \in 0..(hi - lo - Len(args)) :
                     \A k \in 1..Len(args) : r.input[lo + i + k] = args[k]}
          [] fn \in {"helpers.IndexOfAny1", "helpers.LastIndexOfAny1",
                     "helpers.IndexOfAny", "helpers.LastIndexOfAny"} -> among
          [] fn \in {"helpers.IndexOfAnyExcept1", "helpers.LastIndexOfAnyExcept1",
                     "helpers.IndexOfAnyExcept", "helpers.LastIndexOfAnyExcept"} -> except

IndexOfFunctions ==
    {"helpers.IndexOf", "helpers.LastIndexOf", "helpers.IndexOfAny1",
     "helpers.LastIndexOfAny1", "helpers.IndexOfAny", "helpers.LastIndexOfAny",
     "helpers.IndexOfAnyExcept1", "helpers.LastIndexOfAnyExcept1",
     "helpers.IndexOfAnyExcept", "helpers.LastIndexOfAnyExcept"}

LastIndexOfFunctions ==
    {"helpers.LastIndexOf", "helpers.LastIndexOfAny1", "helpers.LastIndexOfAny",
     "helpers.LastIndexOfAnyExcept1", "helpers.LastIndexOfAnyExcept"}

IndexOfValue(r, lo, hi, fn, args) ==
    LET hits == IndexOfHits(r, lo, hi, fn, args)
    IN  IF hits = {} THEN -1
        ELSE IF fn \in LastIndexOfFunctions
        THEN CHOOSE i \in hits : \A j \in hits : j <= i
        ELSE CHOOSE i \in hits : \A j \in hits : i <= j

Min(a, b) == IF a < b THEN a ELSE b

\* The end of slice[:helpers.Min(len(slice), bound)], or of slice when there
\* is no bound.
BoundedEnd(r, bound) ==
    IF bound < 0 THEN Len(r.input) ELSE Min(Len(r.input), r.slice + bound)

\* An assignment statement (=, := or var).
Assigned(r, l) ==
    IF l.a = "slice"
    THEN IF l.b = "r.Runtext[pos:]"
         THEN IF r.locals["pos"] \in 0..Len(r.input)
              THEN [r EXCEPT !.slice = r.locals["pos"]]
              ELSE Stopped(r, "panic")
         ELSE IF l.b = "slice[:]" /\ \A i \in 1..Len(l.args) : l.args[i] \in DOMAIN r.locals
         THEN LET k == l.m + (IF l.args = <<>> THEN 0 ELSE r.locals[l.args[1]])
              IN  IF k \in 0..(Len(r.input) - r.slice)
                  THEN [r EXCEPT !.slice = @ + k]
                  ELSE Stopped(r, "panic")
         ELSE Stopped(r, "unsupported")
    ELSE IF l.cmp = "len" /\ l.b = "slice"
    THEN SetValue(r, l.a, BoundedEnd(r, l.m) - r.slice)
    ELSE IF l.cmp \in IndexOfFunctions /\ l.b = "slice"
    THEN SetValue(r, l.a, IndexOfValue(r, r.slice, BoundedEnd(r, l.m), l.cmp, l.args))
    ELSE IF l.cmp \in IndexOfFunctions /\ l.b \in DOMAIN r.locals /\ l.a \in DOMAIN r.locals
    THEN \* r.Runtext[b:a] or r.Runtext[b:helpers.Min(r.Runtextend, a+m)]
         LET lo == r.locals[l.b]
             hi == IF l.n = 1 THEN Min(Len(r.input), r.locals[l.a] + l.m)
                   ELSE r.locals[l.a]
         IN  IF 0 <= lo /\ lo <= hi /\ hi <= Len(r.input)
             THEN SetValue(r, l.a, IndexOfValue(r, lo, hi, l.cmp, l.args))
             ELSE Stopped(r, "panic")
    ELSE IF l.cmp = "-pos" /\ Known(r, l.b)
    THEN SetValue(r, l.a, IntValue(r, l.b) - r.locals["pos"])
    ELSE IF l.cmp # "" THEN Stopped(r, "unsupported")
    ELSE IF l.b = "r.StackPop()" THEN Popped(r, l.a)
    ELSE IF Known(r, l.b) THEN SetValue(r, l.a, IntValue(r, l.b) + l.m)
    ELSE Stopped(r, "unsupported")

\* A statement that is neither a jump nor the head or end of a block.
Executed(r, l) ==
    CASE l.op \in {"=", ":=", "var"} -> Assigned(r, l)
      [] l.op \in {"++", "--", "+=", "-="} ->
             IF ~Known(r, l.a) \/ ~Known(r, l.b) THEN Stopped(r, "unsupported")
             ELSE SetValue(r, l.a,
                           CASE l.op = "++" -> IntValue(r, l.a) + 1
                             [] l.op = "--" -> IntValue(r, l.a) - 1
                             [] l.op = "+=" -> IntValue(r, l.a) + IntValue(r, l.b) + l.m
                             [] l.op = "-=" -> IntValue(r, l.a) - (IntValue(r, l.b) + l.m))
      [] l.op = "push" -> Pushed(r, l.args)
      [] l.op = "capture" ->
             IF ~Known(r, l.a) \/ ~Known(r, l.b) THEN Stopped(r, "unsupported")
             ELSE [r EXCEPT !.crawl = Append(@, [group |-> l.n,
                                                  start |-> IntValue(r, l.a),
                                                  end |-> IntValue(r, l.b)])]
      [] l.op = "uncapture" ->
             IF l.a = "r.StackPop()"
             THEN IF r.stack = <<>> THEN Stopped(r, "panic")
                  ELSE Uncaptured([r EXCEPT !.stack = SubSeq(@, 1, Len(@) - 1)],
                                  r.stack[Len(r.stack)].v)
             ELSE IF l.a = "0" THEN Uncaptured(r, 0)
             ELSE IF l.a \in DOMAIN r.locals THEN Uncaptured(r, r.locals[l.a])
             ELSE Stopped(r, "unsupported")
      [] OTHER -> Stopped(r, "unsupported")

\* The position (from 0) of the character a clause reads, and the clause's
\* value: "T", "F", or the status the evaluation stops the run with.
CharOperands == {"slice[]", "r.Runtext[pos-1]", "r.Runtext[pos--1]", "r.Runtext[pos]"}

ReadAt(r, l) ==
    LET index == IF l.args # <<>> /\ l.args[1] \in DOMAIN r.locals
                 THEN r.locals[l.args[1]] ELSE 0
    IN  CASE l.a = "slice[]" -> r.slice + l.n + index
          [] l.a = "r.Runtext[pos-1]" -> r.locals["pos"] - 1
          [] l.a = "r.Runtext[pos--1]" -> r.locals["pos"] - index - 1
          [] l.a = "r.Runtext[pos]" -> r.locals["pos"]

Truth(b) == IF b THEN "T" ELSE "F"

ClauseValue(r, l) ==
    IF l.op # "clause" THEN "unsupported"
    ELSE IF l.b = "str[]-i"
    THEN \* r.Runtext[pos] != literal[m - i]: the operands are read left to right
         IF l.a # "r.Runtext[pos]" \/ l.cmp # "!=" \/ "i" \notin DOMAIN r.locals
         THEN "unsupported"
         ELSE IF r.locals["pos"] \notin 0..(Len(r.input) - 1) THEN "panic"
         ELSE IF l.m - r.locals["i"] \notin 0..(Len(l.args) - 1) THEN "panic"
         ELSE Truth(r.input[r.locals["pos"] + 1] # l.args[l.m - r.locals["i"] + 1])
    ELSE IF l.a \in CharOperands
    THEN LET at == ReadAt(r, l) IN
         IF l.args # <<>> /\ l.args[1] # "" /\ l.args[1] \notin DOMAIN r.locals
         THEN "unsupported"
         ELSE IF at < (IF l.a = "slice[]" THEN r.slice ELSE 0) \/ at >= Len(r.input)
         THEN "panic"
         ELSE LET ch == r.input[at + 1]
                  inClass == (\E k \in 2..Len(l.args) : l.args[k] = ch) # (l.b = "negated")
              IN  CASE l.cmp = "in" -> Truth(inClass)
                    [] l.cmp = "notin" -> Truth(~inClass)
                    [] l.cmp = "==" -> Truth(l.b = Quote(ch))
                    [] l.cmp = "!=" -> Truth(l.b # Quote(ch))
                    [] OTHER -> "unsupported"
    ELSE IF l.cmp = "!StartsWith"
    THEN IF l.a # "slice[:]" THEN "unsupported"
         ELSE IF r.slice + l.n > Len(r.input) THEN "panic"
         ELSE Truth(~(/\ r.slice + l.n + Len(l.args) <= Len(r.input)
                      /\ \A k \in 1..Len(l.args) : r.input[r.slice + l.n + k] = l.args[k]))
    ELSE IF ~Known(r, l.a) \/ ~Known(r, l.b) \/ l.args # <<>> THEN "unsupported"
    ELSE LET left == IntValue(r, l.a) + l.n
             right == IntValue(r, l.b) + l.m
         IN  CASE l.cmp = "==" -> Truth(left = right)
               [] l.cmp = "!=" -> Truth(left # right)
               [] l.cmp = "<" -> Truth(left < right)
               [] l.cmp = "<=" -> Truth(left <= right)
               [] l.cmp = ">" -> Truth(left > right)
               [] l.cmp = ">=" -> Truth(left >= right)
               [] OTHER -> "unsupported"

\* The places of a condition where the operator op stands outside parentheses.
TopLevel(tokens, op) ==
    {k \in 1..Len(tokens) :
        /\ tokens[k].op = op
        /\ Cardinality({j \in 1..(k - 1) : tokens[j].op = "("})
              = Cardinality({j \in 1..(k - 1) : tokens[j].op = ")"})}

\* A condition whose parentheses do not pair does not compile.
Balanced(tokens) ==
    LET count(k, op) == Cardinality({j \in 1..k : tokens[j].op = op})
    IN  /\ \A k \in 1..Len(tokens) : count(k, ")") <= count(k, "(")
        /\ count(Len(tokens), ")") = count(Len(tokens), "(")

\* The value of a Go condition written as clauses joined by ||, && and
\* parentheses: && binds tighter than ||, and the right operand is evaluated
\* only when the left one does not decide.
RECURSIVE ConditionValue(_, _)
ConditionValue(r, tokens) ==
    LET ors == TopLevel(tokens, "||")
        ands == TopLevel(tokens, "&&")
        Left(k) == ConditionValue(r, SubSeq(tokens, 1, k - 1))
        Right(k) == ConditionValue(r, SubSeq(tokens, k + 1, Len(tokens)))
    IN  IF tokens = <<>> THEN "unsupported"
        ELSE IF ors # {}
        THEN LET k == CHOOSE x \in ors : \A y \in ors : x <= y
             IN  IF Left(k) = "F" THEN Right(k) ELSE Left(k)
        ELSE IF ands # {}
        THEN LET k == CHOOSE x \in ands : \A y \in ands : x <= y
             IN  IF Left(k) = "T" THEN Right(k) ELSE Left(k)
        ELSE IF Len(tokens) > 1
        THEN IF tokens[1].op = "(" /\ tokens[Len(tokens)].op = ")"
             THEN ConditionValue(r, SubSeq(tokens, 2, Len(tokens) - 1))
             ELSE "unsupported"
        ELSE ClauseValue(r, tokens[1])

\* The lines at which a label is written.
LabelIndexes(body, label) ==
    {i \in 1..Len(body) : body[i].op = "label" /\ body[i].a = label}

\* The braces of the body: the } that closes the { at line open, the { that
\* the } at line close closes, and the if or for that a { belongs to.
Depth(body, from, to) ==
    Cardinality({j \in from..to : body[j].op = "{"})
        - Cardinality({j \in from..to : body[j].op = "}"})

MatchingClose(body, open) ==
    LET closes == {j \in (open + 1)..Len(body) :
                      body[j].op = "}" /\ Depth(body, open + 1, j - 1) = 0}
    IN  IF closes = {} THEN 0 ELSE CHOOSE j \in closes : \A k \in closes : j <= k

MatchingOpen(body, close) ==
    LET opens == {j \in 1..(close - 1) :
                     body[j].op = "{" /\ Depth(body, j + 1, close - 1) = 0}
    IN  IF opens = {} THEN 0 ELSE CHOOSE j \in opens : \A k \in opens : k <= j

HeadOf(body, open) ==
    LET heads == {j \in 1..(open - 1) : body[j].op \in {"if", "for", "switch"}}
    IN  IF heads = {} THEN 0 ELSE CHOOSE j \in heads : \A k \in heads : k <= j

NextOpen(body, head) ==
    LET opens == {j \in (head + 1)..Len(body) : body[j].op = "{"}
    IN  IF opens = {} THEN 0 ELSE CHOOSE j \in opens : \A k \in opens : j <= k

\* The statements from r.at on, in textual order with the jumps as written,
\* up to the next jump to a label, the next label reached by falling
\* through, or the end of the run.
RECURSIVE Run(_, _)
Run(body, r) ==
    IF r.status # "running" THEN r
    ELSE IF r.at \notin 1..Len(body) THEN Stopped(r, "unsupported")
    ELSE
    LET l == body[r.at]
        Continue(r2) == IF r2.status # "running" THEN r2
                        ELSE Run(body, [r2 EXCEPT !.at = r.at + 1])
        \* for i:=0; i < m; i++ { ... }: the test of the counter, after the
        \* initial statement or the post statement.
        Counted(head) == head + 1 <= Len(body) /\ body[head + 1].args = <<"i:=0", "i++">>
        Tested(r2, head) ==
            LET open == NextOpen(body, head)
                close == IF open = 0 THEN 0 ELSE MatchingClose(body, open)
            IN  IF open # head + 2 \/ close = 0 \/ r2.status # "running"
                THEN Stopped(r2, IF r2.status = "running" THEN "unsupported" ELSE r2.status)
                ELSE Then(ClauseValue(r2, [body[head + 1] EXCEPT !.args = <<>>]), LAMBDA v :
                     IF v = "T" THEN Run(body, [r2 EXCEPT !.at = open + 1])
                     ELSE IF v = "F" THEN Run(body, [r2 EXCEPT !.at = close + 1])
                     ELSE Stopped(r2, v))
    IN  CASE l.op = "comment" -> Continue(r)
          [] l.op = "label" -> r
          [] l.op = "goto" ->
                 IF LabelIndexes(body, l.a) = {} THEN Stopped(r, "unsupported")
                 ELSE [r EXCEPT !.at = CHOOSE i \in LabelIndexes(body, l.a) : TRUE]
          [] l.op = "return" ->
                 Stopped(r, IF l.b = "" THEN "matched" ELSE "failed")
          [] l.op = "for" /\ Counted(r.at) -> Tested(SetValue(r, "i", 0), r.at)
          [] l.op \in {"if", "for"} /\ ~(l.op = "for" /\ Counted(r.at)) ->
                 LET open == NextOpen(body, r.at)
                     close == IF open = 0 THEN 0 ELSE MatchingClose(body, open)
                 IN  IF open = 0 \/ close = 0 THEN Stopped(r, "unsupported")
                     ELSE IF ~Balanced(SubSeq(body, r.at + 1, open - 1))
                     THEN Stopped(r, "unsupported")
                     ELSE Then(ConditionValue(r, SubSeq(body, r.at + 1, open - 1)), LAMBDA v :
                          IF v = "T" THEN Run(body, [r EXCEPT !.at = open + 1])
                          ELSE IF v = "F" THEN Run(body, [r EXCEPT !.at = close + 1])
                          ELSE Stopped(r, v))
          [] l.op = "switch" ->
                 \* switch x { case i: goto L ... }: the value switched on is
                 \* a local or is popped; the case with that value is entered,
                 \* and when there is none the switch is left.
                 LET ends == {j \in (r.at + 1)..Len(body) : body[j].op = "}"}
                     end == IF ends = {} THEN 0 ELSE CHOOSE j \in ends : \A k \in ends : j <= k
                     popped == l.a = "r.StackPop()"
                     r2 == IF popped THEN [r EXCEPT !.stack = SubSeq(@, 1, Len(@) - 1)] ELSE r
                     value == IF popped THEN r.stack[Len(r.stack)].v ELSE r.locals[l.a]
                     cases == {j \in (r.at + 1)..(end - 1) :
                                  body[j].op = "case" /\ body[j].a = "int" /\ body[j].n = value}
                 IN  IF end = 0 \/ (~popped /\ l.a \notin DOMAIN r.locals)
                     THEN Stopped(r, "unsupported")
                     ELSE IF popped /\ r.stack = <<>> THEN Stopped(r, "panic")
                     ELSE IF cases = {} THEN Run(body, [r2 EXCEPT !.at = end + 1])
                     ELSE Run(body, [r2 EXCEPT !.at = (CHOOSE j \in cases : \A k \in cases : j <= k) + 1])
          [] l.op = "}" ->
                 LET open == MatchingOpen(body, r.at)
                     head == IF open = 0 THEN 0 ELSE HeadOf(body, open)
                 IN  IF head = 0 THEN Stopped(r, "unsupported")
                     ELSE IF body[head].op = "for" /\ Counted(head)
                     THEN Tested(SetValue(r, "i", r.locals["i"] + 1), head)
                     ELSE IF body[head].op = "for" THEN Run(body, [r EXCEPT !.at = head])
                     ELSE Continue(r)
          [] OTHER -> Continue(Executed(r, l))

\* One labelled section of the run, remembered with the state it began in.
RunSection(body, r) ==
    Run(body, [r EXCEPT !.from = r.at, !.before = <<Entered(r)>>,
                        !.sections = @ + 1,
                        !.at = IF r.at \in 1..Len(body) /\ body[r.at].op = "label"
                               THEN r.at + 1 ELSE r.at])

(***************************************************************************)
(* The state machine: a regexpData is constructed for a tree, and          *)
(* emitExecute is called on it.                                            *)
(***************************************************************************)
Init ==
    /\ \/ \E e \in Expressions : em = NewEmitter(TreeOf(e), FALSE, NoNode)
       \/ \E e \in RightToLeftExpressions : em = NewEmitter(TreeOf(e), TRUE, NoNode)
       \/ \E e \in LiteralAfterLoopExpressions : em = NewEmitter(TreeOf(e), FALSE, 3)
       \/ \E e \in NumberedExpressions :
             em = [NewEmitter(TreeOf(e), FALSE, NoNode) EXCEPT !.Tree = NumberedTree]
       \/ \E e \in GroupExpressions(1..MaxCapNum) :
             em = [NewEmitter(TreeOf(e), FALSE, NoNode) EXCEPT !.Tree = ManyGroupsTree]
       \/ \E e \in GroupExpressions({1, 2}) :
             em = [NewEmitter(TreeOf(e), FALSE, NoNode) EXCEPT !.Tree = NamedTree]
    /\ pc = "constructed"
    /\ calls = 0
    /\ described = <<>>
    /\ run = Idle

EmitExecute ==
    /\ pc # "panicked"
    /\ calls < MaxProcedures
    /\ em' = emitExecute(em)
    /\ pc' = IF em'.panic # <<>> THEN "panicked" ELSE "returned"
    /\ calls' = calls + 1
    /\ UNCHANGED <<described, run>>

Next == EmitExecute

Spec == Init /\ [][Next]_vars

(***************************************************************************)
(* The same state machine with a caller of describeNode: at any time the   *)
(* description of a node of the tree is asked for.  describeNode returns   *)
(* a text and assigns nothing; the last call is remembered with the tree   *)
(* it was made on.                                                         *)
(***************************************************************************)
DescribedExpressions ==
    Leaves \cup Wrapped
    \cup {Join(Alternate, e1, e2) : e1 \in BranchesOnC, e2 \in BranchesOnD}
    \cup Balancing

InitDescribe ==
    /\ \/ \E e \in DescribedExpressions : em = NewEmitter(TreeOf(e), FALSE, NoNode)
       \/ \E e \in {AllRightToLeft(x) : x \in Leaves} : em = NewEmitter(TreeOf(e), TRUE, NoNode)
       \/ \E e \in GroupExpressions({1, 2}) :
             em = [NewEmitter(TreeOf(e), FALSE, NoNode) EXCEPT !.Tree = NamedTree]
    /\ pc = "constructed"
    /\ calls = 0
    /\ described = <<>>
    /\ run = Idle

DescribeNode ==
    /\ \E id \in 2..Len(em.nodes) :
          described' = <<[node |-> id, nodes |-> em.nodes, text |-> describeNode(em, id)]>>
    /\ UNCHANGED <<em, pc, calls, run>>

NextDescribe == EmitExecute \/ DescribeNode

SpecDescribe == InitDescribe /\ [][NextDescribe]_vars

(***************************************************************************)
(* The same state machine with a caller of the emitted procedure: once     *)
(* the procedure is emitted it is run on an input, one labelled section    *)
(* at a time.                                                              *)
(***************************************************************************)
\* Bodies of general loops: of fixed and of variable width, possibly empty,
\* with and without a capture.
LoopBodies ==
    {Single(One("a")), Single(Oneloop("a", 0, 1)), Single(Oneloop("a", 0, MaxInt32)),
     Single(Leaf("Empty")), Wrap(Capture(1, -1, 0), Single(One("a"))),
     Wrap(Capture(1, -1, 0), Single(Oneloop("a", 0, 1))),
     Wrap(Capture(1, -1, 0), Single(Oneloop("a", 0, MaxInt32))),
     Wrap(Atomic, Single(Oneloop("a", 0, MaxInt32))),
     Wrap(Capture(1, -1, 0), Wrap(Atomic, Single(Oneloop("a", 0, MaxInt32))))}

RunLoops == {Wrap(Loop(b[1], b[2], 0), k) : b \in LoopBounds, k \in LoopBodies}

\* The loops that are put inside another loop: those whose body does not
\* give back one character at a time (the number of ways to backtrack
\* through two nested loops over such a body grows exponentially with the
\* input).
InnerLoops ==
    {Wrap(Loop(b[1], b[2], 0), k) : b \in LoopBounds,
        k \in LoopBodies \ {Single(Oneloop("a", 0, MaxInt32)),
                           Wrap(Capture(1, -1, 0), Single(Oneloop("a", 0, MaxInt32)))}}

RunCharLoops == {Single(n) : n \in CharLoopNodes}

\* What comes after a loop and makes it give characters back.
Followers == {Single(One("b")), Single(One("a")), Single(Multi(<<"a", "b">>))}

\* A single-character loop and the literal it is followed by, as the body
\* of a loop.
LiteralAfterLoop ==
    {Join(Concatenate, Single(Setloop(<<"a", "b">>, 0, MaxInt32)), f) :
        f \in {Single(One("b")), Single(Multi(<<"a", "b">>))}}

\* Loops alone, before something that can fail, after a character, and
\* inside another loop.
RunExpressions ==
    RunLoops \cup RunCharLoops
    \cup {Join(Concatenate, e, f) : e \in RunLoops \cup RunCharLoops, f \in Followers}
    \cup {Join(Concatenate, Single(One("b")), e) : e \in RunCharLoops}
    \cup {Join(Concatenate, Wrap(Loop(0, MaxInt32, 0), e), Single(One("b"))) :
             e \in InnerLoops \cup RunCharLoops}
    \cup {Join(Concatenate, Wrap(Loop(1, MaxInt32, 0), k), Single(One("a"))) :
             k \in LiteralAfterLoop \cup {Wrap(Capture(1, -1, 0), j) : j \in LiteralAfterLoop}}

\* Single-character loops of the kinds the atomic loop tells apart: found
\* with IndexOf, consuming everything, and counted one by one (a class
\* that matches every character, bounded; and a class without characters).
EveryCharacter(m, n) == [Setloop(<<>>, m, n) EXCEPT !.SetNeg = TRUE]

AtomicCharLoops ==
    CharLoopNodes \cup {EveryCharacter(0, MaxInt32), EveryCharacter(1, MaxInt32),
                         EveryCharacter(1, 2), EveryCharacter(0, 2),
                         Setloop(<<>>, 0, MaxInt32), Setloop(<<>>, 1, 2)}

AtomicRunExpressions ==
    {Single(n) : n \in AtomicCharLoops}
    \cup {Join(Concatenate, Single(One("b")), Single(n)) : n \in AtomicCharLoops}

RightToLeftRunExpressions ==
    {AllRightToLeft(e) : e \in RunCharLoops}
    \cup {AllRightToLeft(Join(Concatenate, f, e)) : e \in RunCharLoops, f \in Followers}
    \cup {AllRightToLeft(Join(Concatenate, e, Single(Oneloop("a", 1, 2)))) :
             e \in RunCharLoops}
    \cup {AllRightToLeft(Single(n)) : n \in AtomicCharLoops}

InitRun ==
    /\ \/ \E e \in RunExpressions \cup AtomicRunExpressions :
              em = NewEmitter(TreeOf(e), FALSE, NoNode)
       \/ \E e \in RightToLeftRunExpressions : em = NewEmitter(TreeOf(e), TRUE, NoNode)
    /\ pc = "constructed"
    /\ calls = 0
    /\ described = <<>>
    /\ run = Idle

StartRun ==
    /\ pc = "returned"
    /\ em.body # <<>>
    /\ run.status = "idle"
    /\ \E input \in Inputs :
          run' = NewRun(em.body, input, IF em.Options.RightToLeft THEN Len(input) ELSE 0)
    /\ UNCHANGED <<em, pc, calls, described>>

RunOn ==
    /\ run.status = "running"
    /\ run.sections < MaxSections
    /\ run' = RunSection(em.body, run)
    /\ UNCHANGED <<em, pc, calls, described>>

NextRun == (calls = 0 /\ EmitExecute) \/ StartRun \/ RunOn

SpecRun == InitRun /\ [][NextRun]_vars

(***************************************************************************)
(* The same caller for the emitters of one step of a match (anchors, word  *)
(* boundaries, single characters, literals): the procedure is run on texts *)
(* that contain line ends, from any position of the text, after a scan     *)
(* that began there or at the end the scan starts from.                    *)
(***************************************************************************)
\* Longest text a one-step procedure is run on.
MaxText == 3

Texts == UNION {[1..n -> {"a", "b", NL}] : n \in 0..MaxText}

AnchorKinds == {"Beginning", "Start", "Bol", "Eol", "End", "EndZ"}

BoundaryKinds == {"Boundary", "Nonboundary", "ECMABoundary", "NonECMABoundary"}

SingleChars == {One("a"), Notone("a"), SetOf(<<"a", "b">>)}

\* What stands before a step and gives it a static offset of 1 or 2.
Prefixes == {Single(One("a")), Single(Multi(<<"a", "b">>))}

\* A zero-width test alone and after a prefix; a single character or a
\* literal inside an atomic group (the root itself is matched by the find
\* optimization), alone and after a prefix.
StepExpressions ==
    {Single(Leaf(t)) : t \in AnchorKinds \cup BoundaryKinds}
    \cup {Join(Concatenate, f, Single(Leaf(t))) :
             f \in Prefixes, t \in AnchorKinds \cup BoundaryKinds}
    \cup {Wrap(Atomic, Single(n)) : n \in SingleChars \cup {Multi(<<"a", "b">>)}}
    \cup {Join(Concatenate, f, Single(Oneloop("a", 0, MaxInt32))) :
             f \in {Single(n) : n \in SingleChars}}

RightToLeftStepExpressions ==
    {AllRightToLeft(Single(Leaf(t))) : t \in AnchorKinds \cup BoundaryKinds}
    \cup {AllRightToLeft(Wrap(Atomic, Single(n))) :
             n \in SingleChars \cup {Multi(Literal(len)) : len \in 2..MaxMultiLen}}

InitStep ==
    /\ \/ \E e \in StepExpressions : em = NewEmitter(TreeOf(e), FALSE, NoNode)
       \/ \E e \in RightToLeftStepExpressions : em = NewEmitter(TreeOf(e), TRUE, NoNode)
    /\ pc = "constructed"
    /\ calls = 0
    /\ described = <<>>
    /\ run = Idle

\* The runner calls the procedure with r.Runtextpos anywhere in the text;
\* r.Runtextstart is where the scan began.
StartAt ==
    /\ pc = "returned"
    /\ em.body # <<>>
    /\ run.status = "idle"
    /\ \E input \in Texts : \E p \in 0..Len(input) :
          \E start \in {p, IF em.Options.RightToLeft THEN Len(input) ELSE 0} :
              run' = [NewRun(em.body, input, start) EXCEPT !.textpos = p]
    /\ UNCHANGED <<em, pc, calls, described>>

NextStep == (calls = 0 /\ EmitExecute) \/ StartAt \/ RunOn

SpecStep == InitStep /\ [][NextStep]_vars

(***************************************************************************)
(* The same caller for alternations emitted with the general strategy      *)
(* (branches that begin with the same character, or that backtrack):       *)
(* alone, before something that can fail, after a character, inside an     *)
(* atomic group, and as the body of a loop.                                *)
(***************************************************************************)
AlternationBranches ==
    {Single(One("a")), Single(Multi(<<"a", "b">>)), Single(Oneloop("a", 0, MaxInt32)),
     Single(Oneloop("a", 1, MaxInt32)), Wrap(Capture(1, -1, 0), Single(One("a")))}

GeneralAlternations ==
    {Join(Alternate, e1, e2) : e1 \in AlternationBranches, e2 \in AlternationBranches}
    \cup {Join3(Alternate, Single(One("a")), e2, Single(Multi(<<"a", "b">>))) :
             e2 \in AlternationBranches}

AlternationExpressions ==
    GeneralAlternations
    \cup {Join(Concatenate, e, f) : e \in GeneralAlternations,
                                     f \in {Single(One("a")), Single(One("b"))}}
    \cup {Join(Concatenate, Single(One("b")), e) : e \in GeneralAlternations}
    \cup {Join3(Concatenate, Single(One("b")), e, Single(One("b"))) :
             e \in GeneralAlternations}
    \cup {Wrap(Atomic, e) : e \in GeneralAlternations}
    \cup {Join(Concatenate, Wrap(Atomic, e), Single(One("b"))) : e \in GeneralAlternations}
    \cup {Join(Concatenate, Wrap(Loop(0, MaxInt32, 0), e), Single(One("b"))) :
             e \in GeneralAlternations}

InitAlternate ==
    /\ \E e \in AlternationExpressions : em = NewEmitter(TreeOf(e), FALSE, NoNode)
    /\ pc = "constructed"
    /\ calls = 0
    /\ described = <<>>
    /\ run = Idle

SpecAlternate == InitAlternate /\ [][NextRun]_vars

(***************************************************************************)
(* Properties.  What one call of emitExecute wrote is the part of the real *)
(* output after the position the call started at.                          *)
(***************************************************************************)
Procedure == SubSeq(em.real, em.base + 1, Len(em.real))

\* The statements of a piece of output, comments left out.
Code(lines) == SelectSeq(lines, LAMBDA l : l.op # "comment")

RootNode == em.nodes[em.nodes[1].Children[1]]

Shortcut == RootNode.T \in {"Empty", "Nothing", "Multi", "One", "Notone", "Set"}

\* emitExecute returned normally from the general (non-shortcut) path.
NormalCase == pc = "returned" /\ ~Shortcut

Statement(op, a, cmp, b, n, m, args) ==
    [op |-> op, a |-> a, cmp |-> cmp, b |-> b, n |-> n, m |-> m, args |-> args]

HeaderLine == Statement("func", "Execute", "", "", 0, 0, <<>>)

CloseLine == Statement("}", "", "", "", 0, 0, <<>>)

SuccessReturn == Statement("return", "nil", "", "", 0, 0, <<>>)

\* C1: for a root Empty the procedure is exactly: read the runner position,
\* capture group 0 with length 0 at it, return success; for a root Nothing it
\* is exactly a bare return.  In both cases the dispatcher was never called
\* and no declaration was queued.
C1_EmptyAndNothingShortcuts ==
    pc # "constructed" =>
        /\ RootNode.T = "Empty" =>
              /\ Code(Procedure) =
                    <<HeaderLine,
                      Statement("var", "pos", "", "r.Runtextpos", 0, 0, <<>>),
                      Statement("capture", "pos", "", "pos", 0, 0, <<>>),
                      SuccessReturn, CloseLine>>
              /\ em.visited = <<>>
              /\ em.queued = <<>> /\ em.additionalDeclarations = <<>>
        /\ RootNode.T = "Nothing" =>
              /\ Code(Procedure) = <<HeaderLine, SuccessReturn, CloseLine>>
              /\ em.visited = <<>>
              /\ em.queued = <<>> /\ em.additionalDeclarations = <<>>

C1_Witness ==
    /\ pc = "returned" /\ calls = 2
    /\ RootNode.T = "Empty"
    /\ Len(Procedure) = 6 /\ em.base = 6

C1_WitnessNothing ==
    /\ pc = "returned"
    /\ RootNode.T = "Nothing"
    /\ Len(Procedure) = 3

\* C2: for a root One, Notone, Set or Multi the procedure is exactly:
\* start = runner position, end = start + len (start - len right to left),
\* runner position = end, capture group 0 as (start, end), return success;
\* len is the literal's length for Multi and 1 otherwise.  The dispatcher is
\* not called.
C2_FixedAtomShortcut ==
    (pc # "constructed" /\ RootNode.T \in {"Multi", "One", "Notone", "Set"}) =>
        /\ Code(Procedure) =
              <<HeaderLine,
                Statement("var", "start", "", "r.Runtextpos", 0, 0, <<>>),
                Statement("var", "end", IF em.Options.RightToLeft THEN "-" ELSE "+",
                          "r.Runtextpos", 0,
                          IF RootNode.T = "Multi" THEN Len(RootNode.Str) ELSE 1, <<>>),
                Statement("=", "r.Runtextpos", "", "end", 0, 0, <<>>),
                Statement("capture", "start", "", "end", 0, 0, <<>>),
                SuccessReturn, CloseLine>>
        /\ em.visited = <<>>

C2_Witness ==
    /\ pc = "returned"
    /\ RootNode.T = "Multi" /\ Len(RootNode.Str) = MaxMultiLen
    /\ em.Options.RightToLeft
    /\ \E i \in 1..Len(Procedure) : Procedure[i].a = "end" /\ Procedure[i].cmp = "-"
                                    /\ Procedure[i].m = MaxMultiLen

\* The last k statements of the body.
Last(lines, k) == SubSeq(lines, Len(lines) - k + 1, Len(lines))

\* "pos += k" as emitAddStmt renders it.
AddToPos(k) ==
    IF k = 1 THEN Statement("++", "pos", "", "", 0, 0, <<>>)
    ELSE Statement("+=", "pos", "", "", 0, k, <<>>)

SuccessEpilogue ==
    <<Statement("=", "r.Runtextpos", "", "pos", 0, 0, <<>>),
      Statement("capture", "matchStart", "", "pos", 0, 0, <<>>),
      SuccessReturn>>

\* C3: in the normal case the body has one success return, its last
\* statement.  What is written after the dispatcher returned is: pos advanced
\* by the static offset that was pending then (nothing when it was 0), the
\* runner position set to pos, group 0 captured as (matchStart, pos), return
\* success.  matchStart is the runner position on entry and is assigned
\* nowhere else.
C3_SuccessEpilogue ==
    NormalCase =>
        LET body == Code(em.body)
            n == Len(body)
            tail == Code(SubSeq(em.body, em.matched + 1, Len(em.body)))
        IN  /\ \A i \in 1..n : body[i] = SuccessReturn <=> i = n
            /\ tail = (IF em.pending > 0 THEN <<AddToPos(em.pending)>> ELSE <<>>)
                      \o SuccessEpilogue
            /\ body[1] = Statement(":=", "pos", "", "r.Runtextpos", 0, 0, <<>>)
            /\ body[2] = Statement(":=", "matchStart", "", "pos", 0, 0, <<>>)
            /\ \A i \in 3..n : body[i].a # "matchStart" \/ body[i].op = "capture"

C3_Witness ==
    /\ NormalCase
    /\ em.pending > 1
    /\ em.matched > 5
    /\ Code(em.body)[Len(Code(em.body)) - 3] = AddToPos(em.pending)

\* C4: in the normal case the procedure is the header, then the declarations
\* queued during the body emission in the order they were queued, then the
\* whole body, then the closing brace; afterwards no declaration is queued
\* and the output sink is the real one again.
C4_OutputOrder ==
    NormalCase =>
        /\ Procedure = <<HeaderLine>> \o em.queued \o em.body \o <<CloseLine>>
        /\ em.additionalDeclarations = <<>>
        /\ em.out = "real"

C4_Witness ==
    /\ NormalCase /\ calls = 2
    /\ Len(em.queued) >= 2 /\ Len(em.body) > 5
    /\ em.base > 0

\* C5: when the dispatcher reaches a node kind without an emitter, emission
\* aborts naming the node, and nothing of the aborted procedure is in the
\* real output.
C5_NoPartialOutputOnAbort ==
    pc = "panicked" =>
        /\ em.panic # <<>> /\ em.nodes[em.panic[1].node].T = "Unknown"
        /\ Procedure = <<>>

\* The first half of C5 alone: the abort names the node of unknown kind.
C5_AbortNamesNode ==
    pc = "panicked" <=>
        (em.panic # <<>> /\ em.nodes[em.panic[1].node].T = "Unknown")

(***************************************************************************)
(* The backtracking stack.  The section of a label is what is written      *)
(* from the label up to the next label.                                    *)
(***************************************************************************)
SectionEnd(body, from) ==
    LET later == {j \in (from + 1)..Len(body) : body[j].op = "label"}
    IN  IF later = {} THEN Len(body) ELSE (CHOOSE j \in later : \A k \in later : j <= k) - 1

Section(body, label) ==
    LET at == CHOOSE i \in LabelIndexes(body, label) : TRUE
    IN  SubSeq(body, at + 1, SectionEnd(body, at))

\* A statement that takes a value off the backtracking stack.
IsPop(line) ==
    \/ line.op = "=" /\ line.b = "r.StackPop()"
    \/ line.op \in {"uncapture", "switch"} /\ line.a = "r.StackPop()"

Pops(lines) == SelectSeq(lines, IsPop)

\* What a pop restores: the variable assigned, the crawl position for an
\* uncapture, the branch number for the switch of an alternation.
PopTarget(line) ==
    IF line.op = "uncapture" THEN "r.Crawlpos()"
    ELSE IF line.op = "switch" THEN "branch"
    ELSE line.a

\* What a push saves: the variable or expression, the branch number for the
\* literal an alternation pushes.
PushSource(arg) ==
    IF Len(arg) >= 5 /\ SubSeq(arg, 1, 5) = "rune(" THEN "branch" ELSE arg

Reverse(seq) == [i \in 1..Len(seq) |-> seq[Len(seq) + 1 - i]]

PushLines(body) == {i \in 1..Len(body) : body[i].op = "push"}

\* C6: every push statement of the body belongs to one emitter call that
\* owns a backtracking label, the label is marked exactly once, and the
\* label's section pops exactly as many values as the statement pushed.
C6_StackBalance ==
    NormalCase =>
        /\ PushLines(em.body) = {em.pushers[i].line : i \in 1..Len(em.pushers)}
        /\ \A i \in 1..Len(em.pushers) :
              LET p == em.pushers[i]
              IN  /\ Cardinality(LabelIndexes(em.body, p.label)) = 1
                  /\ Len(Pops(Section(em.body, p.label))) = Len(em.body[p.line].args)

\* The emitter calls of the claim that push in the body.
PushingEmitters == {em.pushers[i].emitter : i \in 1..Len(em.pushers)}

C6_Witness ==
    /\ NormalCase
    /\ PushingEmitters = {"emitExecuteSingleCharLoop", "emitExecuteLoop iteration",
                          "emitExecuteLoop", "emitExecuteAlternation",
                          "emitExecuteCapture"}
    /\ \E i \in 1..Len(em.pushers) : Len(em.body[em.pushers[i].line].args) = 3
    /\ \A i \in 1..Len(em.pushers) :
           Len(Pops(Section(em.body, em.pushers[i].label))) >= 1

\* C7: the section of a pusher's backtracking label pops in the reverse of
\* the order its push statement pushed, each value back into what it was
\* pushed from.
C7_PopOrder ==
    NormalCase =>
        \A i \in 1..Len(em.pushers) :
            LET p == em.pushers[i]
                pushed == em.body[p.line].args
                popped == Pops(Section(em.body, p.label))
            IN  [k \in 1..Len(popped) |-> PopTarget(popped[k])]
                    = Reverse([k \in 1..Len(pushed) |-> PushSource(pushed[k])])

\* C7 for every pusher but a general loop nested in another loop.
C7_PopOrderElsewhere ==
    NormalCase =>
        \A i \in 1..Len(em.pushers) :
            LET p == em.pushers[i]
                pushed == em.body[p.line].args
                popped == Pops(Section(em.body, p.label))
            IN  p.emitter # "emitExecuteLoop" =>
                    [k \in 1..Len(popped) |-> PopTarget(popped[k])]
                        = Reverse([k \in 1..Len(pushed) |-> PushSource(pushed[k])])

(***************************************************************************)
(* Captures and failure exits.                                             *)
(***************************************************************************)
\* Everything the procedure wrote that is not a comment.
Written == Code(em.queued \o em.body)

MentionsCrawlpos(line) ==
    \/ line.a = "r.Crawlpos()" \/ line.b = "r.Crawlpos()"
    \/ \E k \in 1..Len(line.args) : line.args[k] = "r.Crawlpos()"

\* C8: when the expression has no captures, the procedure contains no
\* UncaptureUntil call and no reference to Crawlpos.
C8_NoCaptureBookkeeping ==
    (NormalCase /\ ~em.expressionHasCaptures) =>
        \A i \in 1..Len(Written) :
            Written[i].op # "uncapture" /\ ~MentionsCrawlpos(Written[i])

\* Without captures: a single-char loop and an alternation that push inside
\* a loop, and a failure exit.
C8_Witness ==
    /\ NormalCase /\ ~em.expressionHasCaptures
    /\ {"emitExecuteSingleCharLoop", "emitExecuteAlternation"} \subseteq PushingEmitters
    /\ \E i \in 1..Len(Written) :
          Written[i].op = "return" /\ Written[i].b = "The input didn't match."

FailureReturn ==
    [op |-> "return", a |-> "nil", cmp |-> "", b |-> "The input didn't match.",
     n |-> 0, m |-> 0, args |-> <<>>]

UncaptureToZero ==
    [op |-> "uncapture", a |-> "0", cmp |-> "", b |-> "", n |-> 0, m |-> 0, args |-> <<>>]

\* C9: in the normal case every return of the body but the last is the
\* failure return, and it follows an uncapture to 0 exactly when the
\* expression has captures; no goto names the top-level done label, the label
\* is not recorded as used and is never marked.
C9_FailureExits ==
    NormalCase =>
        LET body == Code(em.body)
        IN  /\ \A i \in 1..(Len(body) - 1) :
                  body[i].op = "return" =>
                      /\ body[i] = FailureReturn
                      /\ i > 1
                      /\ em.expressionHasCaptures <=> body[i - 1] = UncaptureToZero
            /\ \A i \in 1..Len(body) :
                  body[i].op \in {"goto", "label"} => body[i].a # em.topLevelDoneLabel
            /\ \A k \in 1..Len(em.usedLabels) : em.usedLabels[k] # em.topLevelDoneLabel
            /\ em.topLevelDoneLabel = "NoMatch"

C9_Witness ==
    /\ NormalCase /\ em.expressionHasCaptures
    /\ \E i \in 2..Len(Code(em.body)) :
          Code(em.body)[i] = FailureReturn /\ Code(em.body)[i - 1] = UncaptureToZero
    /\ \E i \in 1..Len(em.body) : em.body[i].op = "goto"
    /\ Len(em.usedLabels) > 0

(***************************************************************************)
(* The static offset at labels and on return from variable-length          *)
(* emitters.                                                               *)
(***************************************************************************)

\* The calls of the variable-length emitters that returned: the single-char
\* loops that are not fixed-count, and every general loop, alternation and
\* capture.
VariableLengthReturns ==
    {i \in 1..Len(em.returned) :
        em.returned[i].emitter = "emitExecuteSingleCharLoop" =>
            em.nodes[em.returned[i].node].M # em.nodes[em.returned[i].node].N}

\* An atomic optional single-char loop (emitExecuteAtomicSingleCharZeroOrOne)
\* and a general loop of exactly zero or one iteration write no label.
WritesNoLabel(r) ==
    LET node == em.nodes[r.node]
    IN  \/ /\ r.emitter = "emitExecuteSingleCharLoop"
           /\ IsAtomicByAncestor(em, r.node) /\ node.M = 0 /\ node.N = 1
        \/ /\ r.emitter = "emitExecuteLoop"
           /\ node.M = node.N /\ node.M <= 1

\* C10 as stated: sliceStaticPos is 0 at every emitMarkLabel and on return
\* from every non-fixed single-char loop, general loop, alternation and
\* capture emitter.
C10_StaticOffsetZero ==
    pc = "returned" =>
        /\ \A i \in 1..Len(em.markedAt) : em.markedAt[i] = 0
        /\ \A i \in VariableLengthReturns : em.returned[i].sliceStaticPos = 0

\* C10: sliceStaticPos is 0 at every emitMarkLabel, and on return from every
\* non-fixed single-char loop, general loop, alternation and capture emitter
\* other than an atomic optional single-char loop and a general loop of
\* exactly zero or one iteration.
C10_StaticOffsetZeroAtLabels ==
    pc = "returned" =>
        /\ \A i \in 1..Len(em.markedAt) : em.markedAt[i] = 0
        /\ \A i \in VariableLengthReturns :
              ~WritesNoLabel(em.returned[i]) => em.returned[i].sliceStaticPos = 0

\* A concatenation whose first child left a static offset, followed by a
\* construct that marks labels.
C10_Witness ==
    /\ NormalCase
    /\ Len(em.markedAt) >= 2
    /\ em.nodes[2].T = "Concatenate" /\ em.nodes[em.nodes[2].Children[1]].T = "One"
    /\ \E i \in VariableLengthReturns : ~WritesNoLabel(em.returned[i])
    /\ \E i \in 1..Len(em.body) : em.body[i].op = "++" /\ em.body[i].a = "pos"

(***************************************************************************)
(* Labels.                                                                 *)
(***************************************************************************)
\* The labels the body jumps to.
GotoTargets == {em.body[i].a : i \in {j \in 1..Len(em.body) : em.body[j].op = "goto"}}

\* The exits of emitter calls that left doneLabel different from what it
\* was on entry.
DoneLabelChanges == {i \in 1..Len(em.exits) : em.exits[i].doneLabel # em.exits[i].doneLabelOnEntry}

\* The labels an emitter call (and the calls inside it) marked.
LabelsMarkedBy(x) ==
    {em.emittedLabels[k] : k \in (x.labelsOnEntry + 1)..x.labelsOnReturn}

\* C11: in the normal case every label recorded as used and every target of
\* a goto of the body is marked exactly once in the body, every label
\* of the body is recorded as emitted, and an emitter call that returns with
\* doneLabel different from its value on entry marked that label itself or
\* in a call of a child.
C11_LabelOwnership ==
    NormalCase =>
        /\ GotoTargets \subseteq RangeOf(em.usedLabels)
        /\ \A k \in 1..Len(em.usedLabels) :
              Cardinality(LabelIndexes(em.body, em.usedLabels[k])) = 1
        /\ \A i \in 1..Len(em.body) :
              em.body[i].op = "label" => em.body[i].a \in RangeOf(em.emittedLabels)
        /\ \A i \in DoneLabelChanges : em.exits[i].doneLabel \in LabelsMarkedBy(em.exits[i])

\* An alternation in a loop whose backtracking table jumps back into a
\* branch, with every kind of emitter that assigns doneLabel.
C11_Witness ==
    /\ NormalCase
    /\ {em.exits[i].emitter : i \in DoneLabelChanges} =
           {"emitExecuteSingleCharLoop", "emitExecuteLoop", "emitExecuteAlternation",
            "emitExecuteCapture"}
    /\ \E i \in 1..(Len(em.body) - 1) :
          em.body[i].op = "case" /\ em.body[i].a = "int" /\ em.body[i + 1].op = "goto"
    /\ Cardinality(GotoTargets) >= 4

(***************************************************************************)
(* Atomic groups.                                                          *)
(***************************************************************************)
\* The exits of emitExecuteAtomic.
AtomicExits == {i \in 1..Len(em.exits) : em.exits[i].emitter = "emitExecuteAtomic"}

\* The local in which the call snapshots stackpos: what its first statement
\* assigns.
Snapshot(x) == em.body[x.linesOnEntry + 1].a

\* The names the procedure declares as locals in its queued declarations.
DeclaredLocals == UNION {RangeOf(em.queued[i].args) : i \in 1..Len(em.queued)}

\* No goto written after the call returned names a label marked in the call.
NoLaterJumpInto(x) ==
    \A j \in (x.linesOnReturn + 1)..Len(em.body) :
        em.body[j].op = "goto" => em.body[j].a \notin LabelsMarkedBy(x)

\* The part of C12 about doneLabel and jumps: emitExecuteAtomic returns with
\* the doneLabel it was entered with, its first statement is snapshot =
\* stackpos, its last is stackpos = snapshot, nothing else assigns the
\* snapshot, and no goto written after it jumps to a label marked in it.  The
\* same holds for doneLabel and jumps when the child of an Atomic node is
\* dispatched directly.
C12_AtomicBoundaryLabels ==
    NormalCase =>
        /\ \A i \in AtomicExits :
              LET x == em.exits[i]
              IN  /\ x.doneLabel = x.doneLabelOnEntry
                  /\ em.body[x.linesOnEntry + 1] =
                        Statement("=", Snapshot(x), "", "stackpos", 0, 0, <<>>)
                  /\ em.body[x.linesOnReturn] =
                        Statement("=", "stackpos", "", Snapshot(x), 0, 0, <<>>)
                  /\ \A j \in 1..Len(em.body) :
                        (em.body[j].a = Snapshot(x) /\ em.body[j].op \in {"=", ":="})
                            => j = x.linesOnEntry + 1
                  /\ NoLaterJumpInto(x)
        /\ \A i \in 1..Len(em.exits) :
              em.exits[i].emitter = "emitExecuteNode of an atomic child" =>
                  /\ em.exits[i].doneLabel = em.exits[i].doneLabelOnEntry
                  /\ NoLaterJumpInto(em.exits[i])

C12_Witness ==
    /\ NormalCase
    /\ \E i \in AtomicExits :
          /\ LabelsMarkedBy(em.exits[i]) # {}
          /\ \E j \in (em.exits[i].linesOnReturn + 1)..Len(em.body) :
                em.body[j] = FailureReturn

(***************************************************************************)
(* Alternations.                                                           *)
(***************************************************************************)
\* The exits of emitExecuteAlternation.
AlternationExits ==
    {i \in 1..Len(em.exits) : em.exits[i].emitter = "emitExecuteAlternation"}

\* The lines a call wrote itself or through its children, without the lines
\* of the alternations nested in it.
OwnLines(i) ==
    LET x == em.exits[i]
        nested == {k \in AlternationExits \ {i} :
                      /\ em.exits[k].linesOnEntry >= x.linesOnEntry
                      /\ em.exits[k].linesOnReturn <= x.linesOnReturn}
    IN  {j \in (x.linesOnEntry + 1)..x.linesOnReturn :
            \A k \in nested :
                j <= em.exits[k].linesOnEntry \/ j > em.exits[k].linesOnReturn}

\* The switches over a character of the input, the cases on characters and
\* the defaults among the lines of a call.
CharSwitches(i) ==
    {j \in OwnLines(i) : em.body[j].op = "switch" /\ em.body[j].a = "slice[]"}

CharCases(i) == {j \in OwnLines(i) : em.body[j].op = "case" /\ em.body[j].a = "char"}

Defaults(i) == {j \in OwnLines(i) : em.body[j].op = "default"}

\* The starting literal of the b-th branch of an alternation in the tree the
\* procedure was entered with.
BranchLiteral(id, b) ==
    FindStartingLiteralNode(em.treeOnEntry, em.treeOnEntry[id].Children[b], FALSE)

BranchChars(id, b) == RangeOf(StartingChars(em.treeOnEntry[BranchLiteral(id, b)]))

\* The conditions for the switched strategy: left to right; atomic by an
\* ancestor or no branch may backtrack; every branch has a starting literal
\* that is not a notone and, if a set, is not negated and has characters; the
\* starting characters of the branches are pairwise disjoint.
Switchable(id) ==
    LET branches == 1..Len(em.treeOnEntry[id].Children)
    IN  /\ ~em.treeOnEntry[id].Rtl
        /\ \/ id \in em.Analysis.isAtomicByAncestor
           \/ \A b \in branches :
                 em.treeOnEntry[id].Children[b] \notin em.Analysis.mayBacktrack
        /\ \A b \in branches :
              /\ BranchLiteral(id, b) # NoNode
              /\ LET lit == em.treeOnEntry[BranchLiteral(id, b)]
                 IN  /\ lit.T \notin {"Notone", "Notoneloop", "Notonelazy"}
                     /\ lit.T \in {"Set", "Setloop", "Setlazy"} =>
                           ~lit.SetNeg /\ lit.SetChars # <<>>
        /\ \A b \in branches : \A c \in branches :
              b # c => BranchChars(id, b) \cap BranchChars(id, c) = {}

\* Line j and what follows it go to `label`: a goto, or the failure return
\* when the label is the top-level one.
GoesTo(j, label) ==
    \/ em.body[j] = Statement("goto", label, "", "", 0, 0, <<>>)
    \/ /\ label = em.topLevelDoneLabel
       /\ \/ em.body[j] = FailureReturn
          \/ em.body[j] = UncaptureToZero /\ em.body[j + 1] = FailureReturn

\* C13: an alternation is emitted as a switch over the character at the
\* current static offset exactly when it is left to right, is atomic by an
\* ancestor or has no branch that may backtrack, every branch has a starting
\* literal that is not a notone (a set: not negated, with characters), and
\* the starting characters are pairwise disjoint.  Then there is exactly one
\* such switch, at the static offset the alternation was entered with, one
\* case per branch in order on the branch's starting characters, and one
\* default, after the cases, that goes to the doneLabel of entry and closes
\* the switch.
C13_SwitchedBranches ==
    NormalCase =>
        \A i \in AlternationExits :
            LET x == em.exits[i]
                branches == em.treeOnEntry[x.node].Children
            IN  /\ Switchable(x.node) <=> CharSwitches(i) # {}
                /\ CharSwitches(i) # {} =>
                      /\ Cardinality(CharSwitches(i)) = 1
                      /\ \A j \in CharSwitches(i) :
                            /\ em.body[j].n = x.staticPosOnEntry
                            /\ \A k \in CharCases(i) \cup Defaults(i) : k > j
                      /\ Cardinality(CharCases(i)) = Len(branches)
                      /\ \A j \in CharCases(i) :
                            RangeOf(em.body[j].args) =
                               BranchChars(x.node,
                                           Cardinality({k \in CharCases(i) : k <= j}))
                      /\ Cardinality(Defaults(i)) = 1
                      /\ \A j \in Defaults(i) :
                            /\ \A k \in CharCases(i) : k < j
                            /\ GoesTo(j + 1, x.doneLabelOnEntry)
                            /\ em.body[x.linesOnReturn] = CloseLine
                            /\ x.linesOnReturn \in {j + 2, j + 3}

\* An alternation of three branches, one of which may backtrack, that is
\* atomic by an ancestor was emitted as a switch.
C13_Witness ==
    /\ NormalCase
    /\ \E i \in AlternationExits :
          LET id == em.exits[i].node
          IN  /\ CharSwitches(i) # {}
              /\ Len(em.treeOnEntry[id].Children) = 3
              /\ id \in em.Analysis.isAtomicByAncestor
              /\ \E b \in 1..3 :
                    em.treeOnEntry[id].Children[b] \in em.Analysis.mayBacktrack

\* The switched alternations and their branches.
SwitchedExits == {i \in AlternationExits : CharSwitches(i) # {}}

\* A node written for the rest of a multi whose first character the switch
\* took was dispatched.
TailDispatched(lit) ==
    \E k \in RangeOf(em.visited) :
        /\ k > Len(em.treeOnEntry)
        /\ IF Len(lit.Str) = 2
           THEN em.nodes[k].T = "One" /\ em.nodes[k].Ch = lit.Str[2]
           ELSE em.nodes[k].T = "Multi" /\ em.nodes[k].Str = Tail(lit.Str)

\* A concatenation that begins with the plain starting literal of the branch.
BeginsWithLiteral(id, b) ==
    LET child == em.treeOnEntry[id].Children[b]
    IN  /\ em.treeOnEntry[child].Children[1] = BranchLiteral(id, b)
        /\ em.treeOnEntry[BranchLiteral(id, b)].T \in {"One", "Set", "Multi"}

\* The case of the b-th branch matches the whole branch: the branch is the
\* one character of the switch; or it is a multi and its tail was dispatched;
\* or it begins with the plain literal and was dispatched with the literal
\* taken off (and the tail of a multi dispatched); or it was dispatched whole.
WholeBranch(id, b) ==
    LET child == em.treeOnEntry[id].Children[b]
        node == em.treeOnEntry[child]
        lit == em.treeOnEntry[BranchLiteral(id, b)]
    IN  CASE node.T \in {"One", "Set"} -> TRUE
          [] node.T = "Multi" -> TailDispatched(node)
          [] OTHER ->
                /\ child \in RangeOf(em.visited)
                /\ \/ em.nodes[child] = node
                   \/ /\ node.T = "Concatenate" /\ BeginsWithLiteral(id, b)
                      /\ em.nodes[em.nodes[child].Children[1]].T = "Empty"
                      /\ Tail(em.nodes[child].Children) = Tail(node.Children)
                      /\ lit.T = "Multi" => TailDispatched(lit)

\* C14: in a switched alternation the case of every branch matches the whole
\* branch, whatever the shape of the branch.
C14_WholeBranches ==
    NormalCase =>
        \A i \in SwitchedExits :
            \A b \in 1..Len(em.treeOnEntry[em.exits[i].node].Children) :
                WholeBranch(em.exits[i].node, b)

\* The part of C14 that holds: the same for every branch that is not a
\* concatenation, or is one that begins with the plain One, Set or Multi
\* starting literal.
C14_PlainBranchesWhole ==
    NormalCase =>
        \A i \in SwitchedExits :
            \A b \in 1..Len(em.treeOnEntry[em.exits[i].node].Children) :
                LET id == em.exits[i].node
                    node == em.treeOnEntry[em.treeOnEntry[id].Children[b]]
                IN  (node.T = "Concatenate" => BeginsWithLiteral(id, b))
                        => WholeBranch(id, b)

\* A switched alternation with a concatenation branch that begins with a loop
\* or a capture: between its case and the next case or default nothing was
\* written.
C14_Witness ==
    /\ NormalCase
    /\ \E i \in SwitchedExits :
          \E b \in 1..Len(em.treeOnEntry[em.exits[i].node].Children) :
              LET id == em.exits[i].node
                  node == em.treeOnEntry[em.treeOnEntry[id].Children[b]]
              IN  /\ node.T = "Concatenate" /\ ~BeginsWithLiteral(id, b)
                  /\ \E j \in CharCases(i) :
                        /\ Cardinality({k \in CharCases(i) : k <= j}) = b
                        /\ em.body[j + 1].op \in {"case", "default"}

(***************************************************************************)
(* Fixed-count repeats.                                                    *)
(***************************************************************************)
ConcatenationExits ==
    {i \in 1..Len(em.exits) : em.exits[i].emitter = "emitExecuteConcatenation"}

\* The k-th child of concatenation id; a child that a conditional chain can
\* match: a character, a string, or a fixed-count repeat of a character
\* within the unroll bound; and the number of characters it matches.
ChildNode(id, k) == em.nodes[em.nodes[id].Children[k]]

Chainable(node) ==
    \/ node.T \in {"One", "Notone", "Set", "Multi"}
    \/ /\ node.T \in {"Oneloop", "Notoneloop", "Setloop", "Onelazy", "Notonelazy", "Setlazy"}
       /\ node.M = node.N /\ node.M <= MaxUnrollSize

Width(node) ==
    IF node.T = "Multi" THEN Len(node.Str)
    ELSE IF node.T \in {"One", "Notone", "Set"} THEN 1 ELSE node.M

\* The predicate that fails when the character at static offset `offset` is
\* not one the node matches.
PredicateOf(node, offset) ==
    IF IsSetFamily(node)
    THEN Statement("clause", "slice[]", "notin", IF node.SetNeg THEN "negated" ELSE "",
                   offset, 0, <<"">> \o node.SetChars)
    ELSE Statement("clause", "slice[]", IF IsOneFamily(node) THEN "!=" ELSE "==",
                   Quote(node.Ch), offset, 0, <<>>)

\* The predicates of a chain over the children a..(e - 1) that starts at
\* static offset base: one per character, at consecutive offsets.
RECURSIVE ExpectedPredicates(_, _, _, _)
ExpectedPredicates(id, a, e, base) ==
    IF a >= e THEN <<>>
    ELSE LET node == ChildNode(id, a)
         IN  (IF node.T = "Multi"
              THEN <<Statement("clause", "slice[:]", "!StartsWith", "", base, 0, node.Str)>>
              ELSE [k \in 1..Width(node) |-> PredicateOf(node, base + k - 1)])
             \o ExpectedPredicates(id, a + 1, e, base + Width(node))

\* The children a..(e - 1) are a maximal stretch of chainable children in a
\* joinable run (a run of two or more joinable children).
Stretch(id, a, e) ==
    LET last == Len(em.nodes[id].Children)
    IN  /\ a < e
        /\ \A k \in a..(e - 1) : Chainable(ChildNode(id, k))
        /\ a > 1 => ~Chainable(ChildNode(id, a - 1))
        /\ e <= last => ~Chainable(ChildNode(id, e))
        /\ \/ e - a > 1
           \/ a > 1 /\ CanJoinLengthCheck(ChildNode(id, a - 1))
           \/ e <= last /\ CanJoinLengthCheck(ChildNode(id, e))

\* The conditional chain that starts with the "if" at line j: the lines up to
\* the opening brace, which are predicates joined by "||".
ChainEnd(j) ==
    CHOOSE q \in (j + 1)..(Len(em.body) + 1) :
        /\ q <= Len(em.body) => em.body[q].op = "{"
        /\ \A k \in (j + 1)..(q - 1) : em.body[k].op # "{"

ChainAt(j) ==
    SelectSeq(SubSeq(em.body, j + 1, ChainEnd(j) - 1), LAMBDA l : l.op = "clause")

OneChain(j) ==
    /\ em.body[j].op = "if"
    /\ \A k \in (j + 1)..(ChainEnd(j) - 1) : em.body[k].op \in {"clause", "||"}

\* The clauses of a chain without a leading check of the input's length.
Predicates(chain) ==
    IF chain # <<>> /\ chain[1].a = "len(slice)" THEN Tail(chain) ELSE chain

\* The part of C15 that holds: in a left-to-right concatenation every maximal
\* stretch of chainable children of a joinable run is matched by one
\* conditional chain with one predicate per character at consecutive static
\* offsets, so a repeat with M = N <= MaxUnrollSize has exactly M predicates.
C15_Unrolled ==
    NormalCase =>
        \A i \in ConcatenationExits :
            LET x == em.exits[i]
                last == Len(em.nodes[x.node].Children)
            IN  ~em.nodes[x.node].Rtl =>
                    \A a \in 1..last : \A e \in (a + 1)..(last + 1) :
                        Stretch(x.node, a, e) =>
                            \E j \in (x.linesOnEntry + 1)..x.linesOnReturn :
                                /\ OneChain(j)
                                /\ Predicates(ChainAt(j)) # <<>>
                                /\ Predicates(ChainAt(j)) =
                                      ExpectedPredicates(x.node, a, e,
                                                         Predicates(ChainAt(j))[1].n)

\* The single-character loops dispatched for a repeat beyond the unroll bound.
LongRepeats ==
    {i \in 1..Len(em.exits) :
        /\ em.exits[i].emitter = "emitExecuteSingleCharLoop"
        /\ em.nodes[em.exits[i].node].M = em.nodes[em.exits[i].node].N
        /\ em.nodes[em.exits[i].node].M > MaxUnrollSize}

\* C15: a repeat with M = N <= MaxUnrollSize in a joinable run is exactly M
\* predicates at consecutive static offsets in one conditional chain; a
\* repeat with M = N > MaxUnrollSize is not unrolled: it is written as a loop.
C15_UnrollBound ==
    /\ C15_Unrolled
    /\ NormalCase =>
          \A i \in LongRepeats :
              \E j \in (em.exits[i].linesOnEntry + 1)..em.exits[i].linesOnReturn :
                  em.body[j].op = "for"

\* A repeat at the unroll bound was unrolled in a joinable run that starts
\* with another character: its last predicate is at offset MaxUnrollSize.
C15_Witness ==
    /\ NormalCase
    /\ \E i \in ConcatenationExits :
          \E k \in 1..Len(em.nodes[em.exits[i].node].Children) :
              LET node == ChildNode(em.exits[i].node, k)
              IN  /\ node.T = "Oneloop" /\ node.M = MaxUnrollSize /\ node.N = MaxUnrollSize
                  /\ \E a \in 1..k : \E e \in (k + 1)..(k + 2) :
                        Stretch(em.exits[i].node, a, e)
                  /\ \E j \in 1..Len(em.body) :
                        PredicateOf(node, MaxUnrollSize) = em.body[j]
    /\ LongRepeats = {}

(***************************************************************************)
(* Lazy loops and backreferences.                                          *)
(***************************************************************************)
\* The gotos to `label` (or failure returns, for the top-level label) among
\* the lines a call wrote.
JumpsTo(x, label) ==
    {j \in (x.linesOnEntry + 1)..x.linesOnReturn : GoesTo(j, label)}

LazyExits ==
    {i \in 1..Len(em.exits) :
        em.exits[i].emitter \in {"emitExecuteLazy", "emitExecuteSingleCharLazy"}}

\* C16: the code of a lazy loop matches the minimum number of iterations and
\* is re-entered by backtracking to match one more: the call writes code, for
\* a Lazyloop it dispatches the body, and when the loop can iterate more often
\* than its minimum it marks a label to backtrack to and returns with that
\* label as doneLabel.
C16_LazyLoops ==
    NormalCase =>
        \A i \in LazyExits :
            LET x == em.exits[i]
                node == em.nodes[x.node]
            IN  /\ x.linesOnReturn > x.linesOnEntry
                /\ node.T = "Lazyloop" => node.Children[1] \in RangeOf(em.visited)
                /\ node.M < node.N =>
                      /\ LabelsMarkedBy(x) # {}
                      /\ x.doneLabel \in LabelsMarkedBy(x)

\* Lazy loops of both kinds that can iterate more often than their minimum
\* were dispatched.
C16_Witness ==
    /\ NormalCase
    /\ \E i \in LazyExits :
          /\ em.nodes[em.exits[i].node].M < em.nodes[em.exits[i].node].N
          /\ em.nodes[em.exits[i].node].M > 0
          /\ Len(em.body) > em.exits[i].linesOnReturn

BackreferenceExits ==
    {i \in 1..Len(em.exits) : em.exits[i].emitter = "emitExecuteBackreference"}

\* C17: the code of a backreference compares the input at the current
\* position with the text captured by the referenced group and jumps to
\* doneLabel when they differ: the call writes code that reads the group and
\* a jump to the doneLabel it was entered with.
C17_Backreference ==
    NormalCase =>
        \A i \in BackreferenceExits :
            LET x == em.exits[i]
            IN  /\ JumpsTo(x, x.doneLabelOnEntry) # {}
                /\ \E j \in (x.linesOnEntry + 1)..x.linesOnReturn :
                      em.body[j].n = em.nodes[x.node].M \/ em.body[j].m = em.nodes[x.node].M

\* A backreference to a group that was captured before it was dispatched.
C17_Witness ==
    /\ NormalCase
    /\ \E i \in BackreferenceExits :
          \E k \in 1..Len(em.exits) :
              /\ em.exits[k].emitter = "emitExecuteCapture"
              /\ em.nodes[em.exits[k].node].M = em.nodes[em.exits[i].node].M
              /\ em.exits[k].linesOnReturn <= em.exits[i].linesOnEntry

(***************************************************************************)
(* Captures.                                                               *)
(***************************************************************************)
CaptureExits == {i \in 1..Len(em.exits) : em.exits[i].emitter = "emitExecuteCapture"}

\* The statements that add a static offset of k to pos and re-slice the input.
TransferLines(k) ==
    IF k > 0
    THEN <<AddToPos(k), Statement("=", "slice", "", "r.Runtext[pos:]", 0, 0, <<>>)>>
    ELSE <<>>

\* The slot that the tree assigns to the group number n of the pattern.
MappedGroup(n) ==
    IF n = -1 THEN -1 ELSE IF em.Tree.Caps = <<>> THEN n ELSE em.Tree.Caps[n]

\* What was recorded when the child of the capture of exit i returned.
SpanOf(i) ==
    CHOOSE sp \in RangeOf(em.spans) :
        /\ sp.node = em.exits[i].node
        /\ sp.lines >= em.exits[i].linesOnEntry
        /\ sp.lines <= em.exits[i].linesOnReturn

\* The line on which the capture of exit i saves its starting position, and
\* the line of its capture call.
StartLine(i) ==
    em.exits[i].linesOnEntry + Len(TransferLines(em.exits[i].staticPosOnEntry)) + 1

CaptureLine(i) == SpanOf(i).lines + Len(TransferLines(SpanOf(i).sliceStaticPos)) + 1

\* C18: a capture first transfers the static offset it was entered with to
\* pos and saves pos as its starting position; after the child it transfers
\* the static offset the child returned with and calls capture (or
\* transferCapture) once, with the mapped group number(s), the saved starting
\* position, which nothing has assigned in between, and pos.
C18_CaptureSpan ==
    NormalCase =>
        \A i \in CaptureExits :
            LET x == em.exits[i]
                node == em.nodes[x.node]
                S == StartLine(i)
                C == CaptureLine(i)
                start == em.body[S].a
                assigns(j) == em.body[j].op \in {"=", ":="} /\ em.body[j].a = start
            IN  /\ SubSeq(em.body, x.linesOnEntry + 1, S - 1) =
                      TransferLines(x.staticPosOnEntry)
                /\ em.body[S] \in {Statement(op, start, "", "pos", 0, 0, <<>>) :
                                      op \in {"=", ":="}}
                /\ S < C /\ C <= x.linesOnReturn
                /\ SubSeq(em.body, SpanOf(i).lines + 1, C - 1) =
                      TransferLines(SpanOf(i).sliceStaticPos)
                /\ em.body[C] =
                      IF node.N = -1
                      THEN Statement("capture", start, "", "pos", MappedGroup(node.M), 0, <<>>)
                      ELSE Statement("transfercapture", start, "", "pos",
                                     MappedGroup(node.M), MappedGroup(node.N), <<>>)
                /\ \A j \in (S + 1)..C : ~assigns(j)
                /\ \A j \in ((x.linesOnEntry + 1)..x.linesOnReturn) \ {C} :
                      ~(em.body[j].op \in {"capture", "transfercapture"}
                        /\ em.body[j].a = start)

\* A capture whose group number is mapped to another slot was entered with a
\* static offset, and its child returned with one.
C18_Witness ==
    /\ NormalCase
    /\ \E i \in CaptureExits :
          /\ em.exits[i].staticPosOnEntry > 0
          /\ SpanOf(i).sliceStaticPos > 0
          /\ MappedGroup(em.nodes[em.exits[i].node].M) # em.nodes[em.exits[i].node].M
          /\ em.body[CaptureLine(i)].op = "capture"

\* The part of C19 that holds: a balancing group tests r.IsMatched of the
\* mapped group to uncapture right after saving its starting position, before
\* the child, and the body of the test goes to the doneLabel of entry.
C19_BalancingTest ==
    NormalCase =>
        \A i \in CaptureExits :
            LET x == em.exits[i]
                S == StartLine(i)
            IN  em.nodes[x.node].N # -1 =>
                    /\ em.body[S + 1].op = "if"
                    /\ em.body[S + 2].op = "clause"
                    /\ em.body[S + 2].a \in {"r.IsMatched", "!r.IsMatched"}
                    /\ em.body[S + 2].n = MappedGroup(em.nodes[x.node].N)
                    /\ em.body[S + 3].op = "{"
                    /\ GoesTo(S + 4, x.doneLabelOnEntry)
                    /\ SpanOf(i).lines > S + 4

\* C19: a balancing group jumps to doneLabel exactly when the group to
\* uncapture is not matched: the condition of the test before the child is
\* the negation of r.IsMatched.
C19_BalancingGuard ==
    /\ C19_BalancingTest
    /\ NormalCase =>
          \A i \in CaptureExits :
              em.nodes[em.exits[i].node].N # -1 =>
                  em.body[StartLine(i) + 2].a = "!r.IsMatched"

\* A balancing group was emitted after the group it uncaptures.
C19_Witness ==
    /\ NormalCase
    /\ \E i \in CaptureExits : \E k \in CaptureExits :
          /\ em.nodes[em.exits[i].node].N = em.nodes[em.exits[k].node].M
          /\ em.exits[k].linesOnReturn <= em.exits[i].linesOnEntry
          /\ em.body[StartLine(i) + 2].op = "clause"

(***************************************************************************)
(* Timeout checks.                                                         *)
(***************************************************************************)
\* The labels of the backtracking sections of loops and alternations that
\* were marked in the procedure.
BacktrackLabels ==
    {l \in RangeOf(em.emittedLabels) :
        \E p \in {"CharLoopBacktrack", "LoopBacktrack", "AlternationBacktrack"} :
            \E k \in 0..em.usedNames[p] : l = (IF k = 0 THEN p ELSE p \o ToString(k))}

\* Line j calls the runner's timeout check and returns its error.
TimeoutCheckAt(lines, j) ==
    /\ j + 2 <= Len(lines)
    /\ lines[j].op = "clause" /\ "r.CheckTimeout()" \in RangeOf(lines[j].args)
    /\ lines[j + 1].op = "{"
    /\ lines[j + 2].op = "return" /\ lines[j + 2].a = "err"

\* C20: every backtracking section of a loop or alternation calls the
\* runner's timeout check and returns the error when the check fails.
C20_TimeoutChecks ==
    NormalCase =>
        \A l \in BacktrackLabels :
            LabelIndexes(em.body, l) # {} =>
                \E j \in 1..Len(Section(em.body, l)) :
                    TimeoutCheckAt(Section(em.body, l), j)

\* A backtracking section of a loop and one of an alternation were written.
C20_Witness ==
    /\ NormalCase
    /\ \E l \in BacktrackLabels : \E m \in BacktrackLabels :
          /\ l \in {"CharLoopBacktrack", "LoopBacktrack"}
          /\ m = "AlternationBacktrack"
          /\ LabelIndexes(em.body, l) # {} /\ LabelIndexes(em.body, m) # {}
          /\ Pops(Section(em.body, l)) # <<>>

(***************************************************************************)
(* Descriptions.                                                           *)
(***************************************************************************)
\* n with its English ordinal suffix.
Ordinal(n) ==
    Itoa(n) \o (IF n % 100 \in {11, 12, 13} THEN "th"
                ELSE CASE n % 10 = 1 -> "st"
                       [] n % 10 = 2 -> "nd"
                       [] n % 10 = 3 -> "rd"
                       [] OTHER -> "th")

\* The capturing groups that were dispatched, and the description written
\* for node id.
DescribedCaptures ==
    {id \in RangeOf(em.visited) :
        em.nodes[id].T = "Capture" /\ em.nodes[id].N = -1 /\ em.nodes[id].M >= 0}

DescriptionsOf(id) ==
    {em.body[j].a : j \in {k \in 1..Len(em.body) :
                              /\ em.body[k].op = "comment" /\ em.body[k].n = id
                              /\ em.body[k].a # "Node"}}

\* The part of C21 that holds: a group with a name that is not a number is
\* described by its quoted name.
C21_NamedCapture ==
    pc = "returned" =>
        \A id \in DescribedCaptures :
            LET name == groupNameFromNumber(em.Tree, em.nodes[id].M)
            IN  (name # "" /\ ~AtoiOk(name)) =>
                    DescriptionsOf(id) = {GoQuote(name) \o " capture group"}

\* C21: a group whose name is the decimal form of its number n is described
\* as n with its ordinal suffix (1st, 2nd, 3rd, 4th, 11th, 12th, 13th, 21st,
\* ...); a group with a name that is not a number by its quoted name.
C21_DescribeCapture ==
    /\ C21_NamedCapture
    /\ pc = "returned" =>
          \A id \in DescribedCaptures :
              groupNameFromNumber(em.Tree, em.nodes[id].M) = Itoa(em.nodes[id].M) =>
                  DescriptionsOf(id) = {Ordinal(em.nodes[id].M) \o " capture group"}

\* A named group was described, in a tree whose other group has a number as
\* its name.
C21_Witness ==
    /\ pc = "returned"
    /\ \E id \in DescribedCaptures :
          /\ groupNameFromNumber(em.Tree, em.nodes[id].M) = "word"
          /\ DescriptionsOf(id) # {}

Loops == 1..Len(em.loops)

LabelAt(label) == CHOOSE i \in LabelIndexes(em.body, label) : TRUE

\* The nearest line before j that is not a comment.
Prev(j) ==
    LET before == {k \in 1..(j - 1) : em.body[k].op # "comment"}
    IN  CHOOSE k \in before : \A k2 \in before : k2 <= k

\* The value of an operand of a clause of the loop lp in a run-time state env.
Operand(lp, env, name) ==
    IF name = "" THEN 0
    ELSE IF name = "pos" THEN env.pos
    ELSE IF name = lp.startingPos THEN env.startingPos
    ELSE IF name = lp.iterationCount THEN env.count
    ELSE -1

ClauseHolds(lp, env, l) ==
    LET left == Operand(lp, env, l.a) + l.n
        right == Operand(lp, env, l.b) + l.m
    IN  CASE l.cmp = "!=" -> left # right
          [] l.cmp = "==" -> left = right
          [] l.cmp = "<" -> left < right
          [] OTHER -> FALSE

\* The value of a Go condition written as clauses joined by ||, && and
\* parentheses (&& binds tighter than ||).
RECURSIVE Holds(_, _, _)
Holds(lp, env, tokens) ==
    LET ors == TopLevel(tokens, "||")
        ands == TopLevel(tokens, "&&")
        SplitAt(k) == <<SubSeq(tokens, 1, k - 1), SubSeq(tokens, k + 1, Len(tokens))>>
    IN  IF ors # {}
        THEN LET parts == SplitAt(CHOOSE k \in ors : \A k2 \in ors : k <= k2)
             IN  Holds(lp, env, parts[1]) \/ Holds(lp, env, parts[2])
        ELSE IF ands # {}
        THEN LET parts == SplitAt(CHOOSE k \in ands : \A k2 \in ands : k <= k2)
             IN  Holds(lp, env, parts[1]) /\ Holds(lp, env, parts[2])
        ELSE IF Len(tokens) > 1 /\ tokens[1].op = "("
        THEN Holds(lp, env, SubSeq(tokens, 2, Len(tokens) - 1))
        ELSE Len(tokens) = 1 /\ tokens[1].op = "clause" /\ ClauseHolds(lp, env, tokens[1])

\* The run-time states a continuation condition is evaluated in: the
\* iteration did or did not move pos, after so many iterations.
Environments ==
    [pos : {0, 1}, startingPos : {0}, count : 0..(MaxMin + 2)]

\* The condition of the table for re-entering the body.
TableCondition(mayBeEmpty, M, N, env) ==
    LET moved == env.pos # env.startingPos
    IN  IF ~mayBeEmpty
        THEN N = MaxInt32 \/ env.count < N
        ELSE IF N = MaxInt32
        THEN IF M > 0 THEN moved \/ env.count < M ELSE moved
        ELSE IF M > 0 THEN (moved \/ env.count < M) /\ env.count < N
        ELSE moved /\ env.count < N

\* The lines between the if and the { that end at line open.
ConditionBefore(open) ==
    LET ifs == {k \in 1..(open - 1) : em.body[k].op = "if"}
        at == CHOOSE k \in ifs : \A k2 \in ifs : k2 <= k
    IN  SubSeq(em.body, at + 1, open - 1)

\* C23: after the body of an iteration of a general greedy loop, the code
\* jumps back to the loop body exactly when the condition of the table for
\* the loop's combination of (iterations may be empty, N finite, M > 0)
\* holds, and jumps to the loop end otherwise; when iterations cannot be
\* empty and N is unbounded the jump back is unconditional.
C23_LoopContinuation ==
    NormalCase =>
        \A i \in Loops :
            LET lp == em.loops[i]
                node == em.nodes[lp.node]
                mayBeEmpty == ComputeMinLength(em.nodes, node.Children[1]) = 0
                last == Prev(LabelAt(lp.iterationFailedLabel))
            IN  /\ Cardinality(LabelIndexes(em.body, lp.body)) = 1
                /\ Cardinality(LabelIndexes(em.body, lp.endLoop)) = 1
                /\ Cardinality(LabelIndexes(em.body, lp.iterationFailedLabel)) = 1
                /\ LabelAt(lp.body) < last
                /\ IF ~mayBeEmpty /\ node.N = MaxInt32
                   THEN /\ em.body[last] = Goto(lp.body)
                        /\ em.body[Prev(last)].op # "{"
                   ELSE LET close == Prev(last)
                            back == Prev(close)
                            open == Prev(back)
                        IN  /\ em.body[last] = Goto(lp.endLoop)
                            /\ em.body[close] = Close
                            /\ em.body[back] = Goto(lp.body)
                            /\ em.body[open] = Open
                            /\ \A env \in Environments :
                                  Holds(lp, env, ConditionBefore(open))
                                     <=> TableCondition(mayBeEmpty, node.M, node.N, env)

\* A loop whose iterations may be empty, with a minimum above one and a
\* finite maximum, was emitted with a condition on pos and on both bounds.
C23_Witness ==
    /\ NormalCase
    /\ \E i \in Loops :
          LET lp == em.loops[i]
              node == em.nodes[lp.node]
              open == Prev(Prev(Prev(Prev(LabelAt(lp.iterationFailedLabel)))))
          IN  /\ ComputeMinLength(em.nodes, node.Children[1]) = 0
              /\ node.M > 1 /\ node.N < MaxInt32
              /\ TopLevel(ConditionBefore(open), "&&") # {}
              /\ \E env \in Environments :
                    /\ env.count >= node.M
                    /\ Holds(lp, env, ConditionBefore(open))
              /\ \E env \in Environments :
                    /\ env.count < node.M /\ env.pos = env.startingPos
                    /\ Holds(lp, env, ConditionBefore(open))

\* The section of the run that just ended began at the label, in the state
\* Before; and where the run went from there.
RanFrom(label) ==
    /\ run.status # "idle"
    /\ run.before # <<>>
    /\ run.from \in LabelIndexes(em.body, label)

Before == run.before[1]

WentTo(label) ==
    IF label = em.topLevelDoneLabel THEN run.status = "failed"
    ELSE run.status = "running" /\ run.at \in LabelIndexes(em.body, label)

\* What an iteration of the loop pushes when it starts: the crawl position
\* when the expression has captures, the starting position when it is
\* tracked, and pos.
FrameSize(lp) ==
    1 + (IF lp.startingPos # "" THEN 1 ELSE 0)
      + (IF em.expressionHasCaptures THEN 1 ELSE 0)

\* The statement of the loop that pushes the frame.
FramePush(lp) ==
    CHOOSE j \in (LabelAt(lp.body) + 1)..Len(em.body) :
        /\ em.body[j].op = "push"
        /\ \A k \in (LabelAt(lp.body) + 1)..(j - 1) : em.body[k].op = "comment"

ChildBacktracks(lp) == em.nodes[lp.node].Children[1] \in em.Analysis.mayBacktrack

\* C24: a section of the run that begins at the iteration-failed label of a
\* general loop undoes one iteration: the iteration count is one less; when
\* it is negative the run goes to the doneLabel the loop was entered with
\* and nothing is popped; otherwise the frame on top of the stack is the one
\* the loop pushed when the iteration started, pos (and the starting
\* position when tracked) have the values of that frame, the captures above
\* the frame's crawl position are gone (unless the match was left), slice
\* begins at pos, and the frame is popped.
C24_IterationFailed ==
    \A i \in Loops :
        LET lp == em.loops[i]
            size == FrameSize(lp)
            depth == Len(Before.stack)
            frame == SubSeq(Before.stack, depth - size + 1, depth)
        IN  (NormalCase /\ RanFrom(lp.iterationFailedLabel)) =>
                /\ run.locals[lp.iterationCount] = Before.locals[lp.iterationCount] - 1
                /\ IF run.locals[lp.iterationCount] < 0
                   THEN WentTo(lp.originalDoneLabel) /\ run.stack = Before.stack
                   ELSE /\ depth >= size
                        /\ \A k \in 1..size : frame[k].by = FramePush(lp)
                        /\ run.locals["pos"] = frame[size].v
                        /\ lp.startingPos # "" =>
                              run.locals[lp.startingPos] = frame[size - 1].v
                        /\ (em.expressionHasCaptures /\ run.status = "running") =>
                              run.crawl = SubSeq(Before.crawl, 1,
                                                 Min(frame[1].v, Len(Before.crawl)))
                        /\ run.slice = run.locals["pos"]
                        /\ \/ run.stack = SubSeq(Before.stack, 1, depth - size)
                           \/ /\ lp.startingStackpos # ""
                              /\ run.stack = SubSeq(Before.stack, 1,
                                                    run.locals[lp.startingStackpos])

\* An iteration that moved pos and captured was undone, and a loop was left
\* through its iteration-failed label with no iteration remaining.
C24_Witness ==
    /\ NormalCase
    /\ \E i \in Loops :
          LET lp == em.loops[i] IN
          /\ RanFrom(lp.iterationFailedLabel)
          /\ run.locals[lp.iterationCount] >= 0
          /\ lp.startingPos # ""
          /\ run.locals["pos"] < Before.locals["pos"]
          /\ Len(run.crawl) < Len(Before.crawl)

\* The run stands at the label: its next section begins there.
StandsAt(label) == run.status = "running" /\ run.at \in LabelIndexes(em.body, label)

\* The run stands inside the code of the loop's iterations: after the
\* loop-body label and before the iteration-failed label.
StandsInBody(lp) ==
    /\ run.status = "running"
    /\ run.at > LabelAt(lp.body)
    /\ run.at < LabelAt(lp.iterationFailedLabel)

\* An iteration of the loop was undone and fewer than the minimum remain.
BelowMinimum(lp) ==
    /\ NormalCase
    /\ RanFrom(lp.iterationFailedLabel)
    /\ run.locals[lp.iterationCount] >= 0
    /\ run.locals[lp.iterationCount] < em.nodes[lp.node].M

\* C25: when the run stands at the loop-end label of a general loop the
\* iteration count is at least M and, when N is finite, at most N; when an
\* undone iteration leaves fewer than M, and the child does not backtrack,
\* the run goes to the doneLabel the loop was entered with, and for M > 1
\* and a count that is not zero the stack is cut back to the depth
\* snapshotted on entry, which is within the stack below the popped frame;
\* when the child backtracks the run goes to that doneLabel for a count of
\* zero and back into the loop's iterations otherwise.
C25_LoopBounds ==
    \A i \in Loops :
        LET lp == em.loops[i]
            M == em.nodes[lp.node].M
            N == em.nodes[lp.node].N
            count == run.locals[lp.iterationCount]
        IN  /\ (NormalCase /\ StandsAt(lp.endLoop)) =>
                   /\ M <= count
                   /\ N # MaxInt32 => count <= N
            /\ BelowMinimum(lp) =>
                   IF ChildBacktracks(lp)
                   THEN IF count = 0 THEN WentTo(lp.originalDoneLabel)
                        ELSE StandsInBody(lp)
                   ELSE /\ WentTo(lp.originalDoneLabel)
                        /\ (M > 1 /\ count # 0) =>
                              /\ run.locals[lp.startingStackpos]
                                     <= Len(Before.stack) - FrameSize(lp)
                              /\ run.stack = SubSeq(Before.stack, 1,
                                                    run.locals[lp.startingStackpos])

\* A loop of at least two iterations, inside another loop, cuts the stack
\* back to a depth that is not the one it was entered with.
C25_StaleSnapshot ==
    \E i \in Loops :
        LET lp == em.loops[i] IN
        /\ BelowMinimum(lp)
        /\ ~ChildBacktracks(lp)
        /\ em.nodes[lp.node].M > 1
        /\ run.locals[lp.iterationCount] # 0
        /\ run.locals[lp.startingStackpos] > Len(Before.stack) - FrameSize(lp)

Finished == run.status \in {"matched", "failed", "panic", "unsupported"}

\* Every general loop of the expression has a body that can match the
\* empty string: it tracks the position its iteration started at.
MayBeEmpty == NormalCase /\ Loops # {} /\ \A i \in Loops : em.loops[i].startingPos # ""

\* The section of the run that just ended began inside the iterations of
\* the loop.
RanInBody(lp) ==
    /\ run.status # "idle"
    /\ run.from >= LabelAt(lp.body)
    /\ run.from < LabelAt(lp.iterationFailedLabel)

\* The greedy phase goes on to another iteration only after an iteration
\* that moved pos or while the minimum is not reached, and below the
\* maximum; and each section from the iteration-failed label leaves the
\* count smaller.
GreedyPhase ==
    \A i \in Loops :
        LET lp == em.loops[i]
            count == run.locals[lp.iterationCount]
        IN  /\ (NormalCase /\ lp.startingPos # "" /\ RanInBody(lp) /\ StandsAt(lp.body)) =>
                   /\ \/ run.locals["pos"] # run.locals[lp.startingPos]
                      \/ count < em.nodes[lp.node].M
                   /\ count < em.nodes[lp.node].N
            /\ (NormalCase /\ RanFrom(lp.iterationFailedLabel)) =>
                   count < Before.locals[lp.iterationCount]

EndedByEmptyIteration ==
    \E i \in Loops :
        LET lp == em.loops[i] IN
        /\ MayBeEmpty
        /\ RanInBody(lp)
        /\ StandsAt(lp.endLoop)
        /\ run.locals["pos"] = run.locals[lp.startingPos]
        /\ run.locals[lp.iterationCount] >= 2
        /\ run.locals[lp.iterationCount] < em.nodes[lp.node].N

CharLoops == 1..Len(em.charLoops)

\* The ending and the starting position the backtracking section of the
\* loop works on: the locals, or, inside another loop, what the loop pushed
\* (below the crawl position when the expression has captures).
Old(cl) ==
    IF cl.node \in em.Analysis.isInLoop
    THEN LET top == Len(Before.stack) - (IF em.expressionHasCaptures THEN 1 ELSE 0)
         IN  [endingPos |-> Before.stack[top].v, startingPos |-> Before.stack[top - 1].v]
    ELSE [endingPos |-> Before.locals[cl.endingPos],
          startingPos |-> Before.locals[cl.startingPos]]

\* The section that just ended began before the backtracking section of
\* the loop: it ran the greedy pass.
RanForward(cl) ==
    /\ run.status # "idle"
    /\ run.from < LabelAt(cl.backtrackingLabel)

\* The loop is the first node of the expression: it begins where the match
\* is started.
LoopComesFirst(cl) ==
    /\ RootNode.T = "Concatenate"
    /\ RootNode.Children[1] = cl.node
    /\ run.from = 1

\* C27: the run first stands at the end label of a backtracking
\* single-character loop with pos at the ending position the greedy pass
\* reached, which is not before the starting position advanced by M (for a
\* loop at the start of the expression: the start of the match advanced by
\* M); a section from the loop's backtrack label either goes to the
\* doneLabel the emitter was entered with, or stands at the end label with
\* the ending position nearer to the start (by one when no IndexOf is
\* used), not past the starting position advanced by M, and pos at it; the
\* decrementing variant fails exactly when the ending position has reached
\* the advanced starting position; and the emitter returns with doneLabel
\* set to the backtrack label.
C27_CharLoopBacktracking ==
    /\ \A i \in CharLoops :
          LET cl == em.charLoops[i]
              rtl == em.nodes[cl.node].Rtl
              endingPos == run.locals[cl.endingPos]
              startingPos == run.locals[cl.startingPos]
          IN  /\ (NormalCase /\ RanForward(cl) /\ StandsAt(cl.endLoop)) =>
                     /\ run.locals["pos"] = endingPos
                     /\ IF rtl THEN endingPos <= startingPos ELSE endingPos >= startingPos
                     /\ LoopComesFirst(cl) =>
                           startingPos = IF rtl THEN run.start - em.nodes[cl.node].M
                                         ELSE run.start + em.nodes[cl.node].M
              /\ (NormalCase /\ RanFrom(cl.backtrackingLabel) /\ run.status # "panic") =>
                     \/ /\ WentTo(cl.originalDoneLabel)
                        /\ ~cl.indexOf.ok =>
                              IF rtl THEN Old(cl).startingPos <= Old(cl).endingPos
                              ELSE Old(cl).startingPos >= Old(cl).endingPos
                     \/ /\ StandsAt(cl.endLoop)
                        /\ startingPos = Old(cl).startingPos
                        /\ run.locals["pos"] = endingPos
                        /\ IF rtl
                           THEN /\ endingPos = Old(cl).endingPos + 1
                                /\ endingPos <= startingPos
                           ELSE /\ endingPos < Old(cl).endingPos
                                /\ ~cl.indexOf.ok => endingPos = Old(cl).endingPos - 1
                                /\ endingPos >= startingPos
    /\ \A e \in 1..Len(em.exits) :
          LET x == em.exits[e] IN
          (/\ x.emitter = "emitExecuteSingleCharLoop"
           /\ x.node \notin em.Analysis.isAtomicByAncestor
           /\ em.nodes[x.node].M # em.nodes[x.node].N) =>
              \E i \in CharLoops : /\ em.charLoops[i].node = x.node
                                   /\ x.doneLabel = em.charLoops[i].backtrackingLabel
                                   /\ x.doneLabelOnEntry = em.charLoops[i].originalDoneLabel

\* A loop gave back a character and went on from its end label.
C27_Witness ==
    \E i \in CharLoops :
        LET cl == em.charLoops[i] IN
        /\ NormalCase
        /\ RanFrom(cl.backtrackingLabel)
        /\ StandsAt(cl.endLoop)
        /\ ~cl.indexOf.ok
        /\ run.locals[cl.endingPos] > run.locals[cl.startingPos]

\* The positions from the advanced starting position up to, not including,
\* the old ending position at which the literal that follows the loop
\* begins in the input.
LiteralBegins(cl) ==
    LET lit == cl.indexOf.args IN
    {p \in Old(cl).startingPos..(Old(cl).endingPos - 1) :
        /\ p + Len(lit) <= Len(run.input)
        /\ \A k \in 1..Len(lit) : run.input[p + k] = lit[k]}

\* The loop backtracks by searching for the literal that follows it.
SearchesLiteral(cl) ==
    /\ cl.indexOf.ok
    /\ cl.indexOf.fn \in {"helpers.LastIndexOf", "helpers.LastIndexOfAny1",
                          "helpers.IndexOf", "helpers.IndexOfAny1"}

\* C28: a section from the backtrack label of a single-character loop that
\* searches for the literal after it goes to the doneLabel of entry when
\* the literal begins at no position from the advanced starting position
\* up to the old ending position (within the input); otherwise it goes on
\* from the end label with the ending position, and pos, at the greatest
\* such position, which is less than the old ending position.
C28_IndexOfBacktracking ==
    \A i \in CharLoops :
        LET cl == em.charLoops[i] IN
        (NormalCase /\ SearchesLiteral(cl) /\ RanFrom(cl.backtrackingLabel)) =>
            IF LiteralBegins(cl) = {}
            THEN WentTo(cl.originalDoneLabel)
            ELSE /\ StandsAt(cl.endLoop)
                 /\ run.locals[cl.endingPos] \in LiteralBegins(cl)
                 /\ \A p \in LiteralBegins(cl) : p <= run.locals[cl.endingPos]
                 /\ run.locals[cl.endingPos] < Old(cl).endingPos
                 /\ run.locals["pos"] = run.locals[cl.endingPos]
                 /\ run.slice = run.locals["pos"]

\* The search gave back more than one character at once, for a literal of
\* more than one character, where the literal begins at several positions.
C28_Witness ==
    \E i \in CharLoops :
        LET cl == em.charLoops[i] IN
        /\ NormalCase /\ SearchesLiteral(cl) /\ RanFrom(cl.backtrackingLabel)
        /\ StandsAt(cl.endLoop)
        /\ cl.indexOf.literalLength > 1
        /\ run.locals[cl.endingPos] < Old(cl).endingPos - 1

(***************************************************************************)
(* Atomic single-character loops.                                          *)
(***************************************************************************)
\* The character satisfies the predicate of the node.
Satisfies(node, ch) ==
    IF IsOneFamily(node) THEN ch = node.Ch
    ELSE IF IsNotoneFamily(node) THEN ch # node.Ch
    ELSE (ch \in RangeOf(node.SetChars)) # node.SetNeg

\* The length of the longest run of characters that satisfy the predicate
\* of the node, from position p of the input on (right to left: back).
LongestRun(node, input, p) ==
    LET room == IF node.Rtl THEN p ELSE Len(input) - p
        runs == {k \in 0..room :
                    \A j \in 1..k :
                        Satisfies(node, input[IF node.Rtl THEN p - j + 1 ELSE p + j])}
    IN  CHOOSE k \in runs : \A j \in runs : j <= k

\* The number of iterations of the loop at position p.
Iterations(node, input, p) == Min(node.N, LongestRun(node, input, p))

\* A loop of the atomic loop emitter proper: not a repeater, not optional.
VariableLoop(node) ==
    /\ node.T \in {"Oneloop", "Notoneloop", "Setloop"}
    /\ node.M # node.N
    /\ ~(node.M = 0 /\ node.N = 1)

\* The expression is an atomic single-character loop, alone or after the
\* character b (left to right); the position the loop begins at when the b
\* is there, and the loop.
LoopAlone == VariableLoop(RootNode)

LoopAfterB ==
    /\ ~em.Options.RightToLeft
    /\ RootNode.T = "Concatenate"
    /\ Len(RootNode.Children) = 2
    /\ em.nodes[RootNode.Children[1]].T = "One"
    /\ em.nodes[RootNode.Children[1]].Ch = "b"
    /\ VariableLoop(em.nodes[RootNode.Children[2]])

BIsThere == run.start < Len(run.input) /\ run.input[run.start + 1] = "b"

OptionalLoop(node) ==
    /\ node.T \in {"Oneloop", "Notoneloop", "Setloop"}
    /\ node.M = 0
    /\ node.N = 1

OptionalAlone == OptionalLoop(RootNode)

OptionalAfterB ==
    /\ ~em.Options.RightToLeft
    /\ RootNode.T = "Concatenate"
    /\ Len(RootNode.Children) = 2
    /\ em.nodes[RootNode.Children[1]].T = "One"
    /\ em.nodes[RootNode.Children[1]].Ch = "b"
    /\ OptionalLoop(em.nodes[RootNode.Children[2]])

\* What a procedure that is an optional character, alone or after the
\* character b, does at the end of its run: it has not read outside the
\* input, it fails only for want of the b, and its match ends one character
\* after the position of the optional character (before it, right to left)
\* when there is a character and it satisfies the predicate, and at that
\* position otherwise.
OptionalConsumesOne ==
    LET node == IF OptionalAlone THEN RootNode ELSE em.nodes[RootNode.Children[2]]
        p == IF OptionalAlone THEN run.start ELSE run.start + 1
        one == Iterations(node, run.input, p)
    IN  IF OptionalAfterB /\ ~BIsThere
        THEN run.status = "failed"
        ELSE /\ run.status = "matched"
             /\ run.textpos = IF node.Rtl THEN p - one ELSE p + one

\* C30: an atomic optional single character consumes one character when
\* one remains and satisfies the predicate, and nothing otherwise; it does
\* not fail and does not read the input where no character remains.
C30_OptionalCharacter ==
    (NormalCase /\ Finished /\ (OptionalAlone \/ OptionalAfterB)) => OptionalConsumesOne

\* The optional character holds what is said of it where it is emitted
\* right to left or with a static offset before it.
C30_WithOffsetOrRightToLeft ==
    (/\ NormalCase /\ Finished
     /\ \/ OptionalAfterB
        \/ OptionalAlone /\ em.Options.RightToLeft) => OptionalConsumesOne

\* Left to right without a static offset the optional character is never
\* consumed, and the run reads outside the input when nothing remains.
C30_NeverConsumed ==
    (NormalCase /\ Finished /\ OptionalAlone /\ ~em.Options.RightToLeft) =>
        IF run.input = <<>> THEN run.status = "panic"
        ELSE run.status = "matched" /\ run.textpos = run.start

(***************************************************************************)
(* One step of a match.  The procedures of SpecStep are a zero-width test, *)
(* a single character or a literal, alone or after a literal prefix; what  *)
(* they decide is compared with the meaning of the step at the position    *)
(* the run was called at.                                                  *)
(***************************************************************************)
\* Where the run was called: the prologue keeps r.Runtextpos in matchStart.
CalledAt == run.locals["matchStart"]

\* The literal prefix before the step, and the node of the step.
PrefixBefore ==
    IF RootNode.T # "Concatenate" THEN <<>>
    ELSE LET first == em.nodes[RootNode.Children[1]]
         IN  IF first.T = "Multi" THEN first.Str ELSE <<first.Ch>>

StepNode ==
    IF RootNode.T \in {"Concatenate", "Atomic"}
    THEN em.nodes[RootNode.Children[Len(RootNode.Children)]]
    ELSE RootNode

LiteralAt(input, p, lit) ==
    /\ p + Len(lit) <= Len(input)
    /\ \A k \in 1..Len(lit) : input[p + k] = lit[k]

\* What each anchor means at position p (from 0) of the input.
AnchorHolds(kind, input, p, start) ==
    CASE kind = "Beginning" -> p = 0
      [] kind = "Start" -> p = start
      [] kind = "Bol" -> p = 0 \/ input[p] = NL
      [] kind = "End" -> p = Len(input)
      [] kind = "EndZ" -> p = Len(input) \/ (p = Len(input) - 1 /\ input[p + 1] = NL)
      [] kind = "Eol" -> p = Len(input) \/ input[p + 1] = NL

\* A finished run of a procedure that is an anchor, alone or after a
\* literal prefix.
AnchorRan ==
    /\ NormalCase
    /\ Finished
    /\ StepNode.T \in AnchorKinds
    /\ RootNode.T \in AnchorKinds \cup {"Concatenate"}

\* The run matched exactly when the prefix is at the position called at and
\* the anchor holds after it, and failed otherwise.
AnchorDecides ==
    LET holds == /\ LiteralAt(run.input, CalledAt, PrefixBefore)
                 /\ AnchorHolds(StepNode.T, run.input, CalledAt + Len(PrefixBefore),
                                run.start)
    IN  run.status = IF holds THEN "matched" ELSE "failed"

\* C31: for every anchor kind, input and position the emitted condition
\* jumps to doneLabel exactly when the anchor does not hold at the logical
\* position pos + sliceStaticPos, and the form written for a static offset
\* decides as the form written for pos does at the same logical position.
C31_Anchors == AnchorRan => AnchorDecides

\* Every anchor but Eol decides as C31 says, in both forms.
C31_AnchorsButEol == (AnchorRan /\ StepNode.T # "Eol") => AnchorDecides

\* The condition written for Eol has a closing parenthesis without an
\* opening one in both forms: it does not compile, and a run that reaches
\* it stops there.
C31_EolDoesNotCompile ==
    (AnchorRan /\ StepNode.T = "Eol" /\ LiteralAt(run.input, CalledAt, PrefixBefore)) =>
        run.status = "unsupported"

\* A finished run of a procedure that is a single character with its own
\* length check: alone in an atomic group, or before a loop.
CharNode ==
    IF RootNode.T = "Concatenate" THEN em.nodes[RootNode.Children[1]] ELSE StepNode

SingleCharRan ==
    /\ NormalCase
    /\ Finished
    /\ CharNode.T \in {"One", "Notone", "Set"}
    /\ \/ RootNode.T = "Atomic"
       \/ RootNode.T = "Concatenate" /\ StepNode.T = "Oneloop"

\* The statements before the epilogue that assign pos.
PosWrites ==
    SelectSeq(SubSeq(em.body, 1, em.matched),
              LAMBDA l : l.op \in AssignmentOps /\ l.a = "pos")

\* The run failed exactly when no character was at the position called at
\* or the character does not satisfy the predicate of the kind; otherwise
\* it matched one character further on (back, right to left; after the
\* characters of the loop, before a loop).  Left to right the emitter left
\* pos alone and moved the static offset by one; right to left it wrote
\* pos-- and left the static offset.
SingleCharDecides ==
    LET rtl == CharNode.Rtl
        there == IF rtl THEN CalledAt > 0 ELSE CalledAt < Len(run.input)
        ch == run.input[IF rtl THEN CalledAt ELSE CalledAt + 1]
        rest == IF RootNode.T = "Concatenate"
                THEN LongestRun(StepNode, run.input, CalledAt + 1) ELSE 0
    IN  /\ IF there /\ Satisfies(CharNode, ch)
           THEN /\ run.status = "matched"
                /\ run.textpos = IF rtl THEN CalledAt - 1 ELSE CalledAt + 1 + rest
           ELSE run.status = "failed"
        /\ RootNode.T = "Atomic" =>
              IF rtl
              THEN em.pending = 0 /\ Len(PosWrites) = 2 /\ PosWrites[2].op = "--"
              ELSE em.pending = 1 /\ Len(PosWrites) = 1

\* C32: a single character (One, Notone, Set) with length check jumps to
\* doneLabel exactly when no character is available at the logical
\* position or the character violates the predicate of the kind; on
\* success exactly one character is consumed: the static offset grows by
\* one and pos is left alone left to right, pos decreases by one and the
\* static offset is left alone right to left.
C32_SingleChar == SingleCharRan => SingleCharDecides

\* Left to right the single character does what C32 says.
C32_LeftToRight == (SingleCharRan /\ ~CharNode.Rtl) => SingleCharDecides

\* Right to left the condition is written without its opening brace (the
\* block of the if is never opened): the procedure does not compile.
C32_RightToLeftDoesNotCompile == (SingleCharRan /\ CharNode.Rtl) => run.status = "unsupported"

\* A finished run of a procedure that is a right-to-left literal of several
\* characters.
MultiRan ==
    /\ NormalCase
    /\ Finished
    /\ RootNode.T = "Atomic"
    /\ StepNode.T = "Multi"
    /\ StepNode.Rtl

\* C33: right to left, the code emitted for a literal s succeeds exactly
\* when pos >= len(s) and input[pos-len(s) : pos] is s, leaving pos
\* decreased by len(s), and jumps to doneLabel otherwise; comparing from
\* the last character to the first it indexes neither the literal nor the
\* input out of range.
C33_RightToLeftMulti ==
    MultiRan =>
        IF /\ CalledAt >= Len(StepNode.Str)
           /\ LiteralAt(run.input, CalledAt - Len(StepNode.Str), StepNode.Str)
        THEN run.status = "matched" /\ run.textpos = CalledAt - Len(StepNode.Str)
        ELSE run.status = "failed"

\* Every run of the right-to-left literal ends in an index out of range:
\* of the input when it is called at position 0, of the literal otherwise.
C33_IndexOutOfRange == MultiRan => run.status = "panic"

\* A word character stands at position p (from 0) of the input; of the
\* characters of Texts, a and b are word characters for both the Unicode
\* and the ECMAScript classes.
WordAt(input, p) == p \in 0..(Len(input) - 1) /\ input[p + 1] \in {"a", "b"}

BoundaryHolds(kind, input, p) ==
    IF kind \in {"Boundary", "ECMABoundary"}
    THEN WordAt(input, p - 1) # WordAt(input, p)
    ELSE WordAt(input, p - 1) = WordAt(input, p)

\* A finished run of a procedure that is a word-boundary test, alone or
\* after a literal prefix.
BoundaryRan ==
    /\ NormalCase
    /\ Finished
    /\ StepNode.T \in BoundaryKinds
    /\ RootNode.T \in BoundaryKinds \cup {"Concatenate"}

\* C38: each word-boundary node emits a single zero-width condition that
\* jumps to doneLabel when the assertion does not hold at the logical
\* position, and consumes no input.
C38_WordBoundaries ==
    BoundaryRan =>
        IF /\ LiteralAt(run.input, CalledAt, PrefixBefore)
           /\ BoundaryHolds(StepNode.T, run.input, CalledAt + Len(PrefixBefore))
        THEN run.status = "matched" /\ run.textpos = CalledAt + Len(PrefixBefore)
        ELSE run.status = "failed"

\* Nothing is emitted for a word boundary: the run matches wherever the
\* prefix is, and the procedure has no condition after the prefix.
C38_NothingEmitted ==
    (BoundaryRan /\ LiteralAt(run.input, CalledAt, PrefixBefore)) =>
        /\ run.status = "matched"
        /\ \A l \in 1..Len(em.body) :
              (/\ em.body[l].op = "comment"
               /\ em.body[l].n \in 2..Len(em.nodes)
               /\ em.nodes[em.body[l].n].T \in BoundaryKinds) =>
                  em.body[l + 1].op = "comment"

(***************************************************************************)
(* Concatenations.                                                         *)
(***************************************************************************)
\* The joinable runs that emitExecuteConcatenation found, and the lines
\* written for one of them.
JoinedRuns == 1..Len(em.joined)

LinesOf(x) == (x.linesOnEntry + 1)..x.linesOnReturn

\* One check of the length of slice stands before the run, for the static
\* offset s the run starts at plus its required length R.
OneLengthCheck(x) ==
    /\ em.body[x.linesOnEntry + 1].op = "if"
    /\ em.body[x.linesOnEntry + 2] =
          Statement("clause", "len(slice)", "<", "", 0,
                    x.staticPosOnEntry + x.requiredLength, <<>>)
    /\ \A j \in LinesOf(x) :
          (em.body[j].op = "clause" /\ em.body[j].a = "len(slice)") =>
              j = x.linesOnEntry + 2

\* Every index of slice that a clause of the run reads lies in [s, s + R).
IndexesWithin(x) ==
    \A j \in LinesOf(x) :
        LET l == em.body[j]
        IN  /\ (l.op = "clause" /\ l.a = "slice[]") =>
                  /\ x.staticPosOnEntry <= l.n
                  /\ l.n < x.staticPosOnEntry + x.requiredLength
            /\ (l.op = "clause" /\ l.a = "slice[:]") =>
                  /\ x.staticPosOnEntry <= l.n
                  /\ l.n + Len(l.args) <= x.staticPosOnEntry + x.requiredLength

AdvancedByRequired(x) ==
    x.staticPosOnReturn = x.staticPosOnEntry + x.requiredLength

\* Every child of the run is matched by clauses of a conditional chain.
AllChainable(x) ==
    \A k \in x.first..(x.exclusiveEnd - 1) : Chainable(ChildNode(x.node, k))

\* C34: for a joinable run of fixed-length children with required length R
\* that starts at static offset s, exactly one length check
\* (len(slice) < s + R) is emitted before the run, every index of slice
\* that the clauses of the run read lies in [s, s + R), and after the run
\* sliceStaticPos is s + R.
C34_JoinedLengthCheck ==
    NormalCase =>
        \A i \in JoinedRuns :
            /\ OneLengthCheck(em.joined[i])
            /\ IndexesWithin(em.joined[i])
            /\ AdvancedByRequired(em.joined[i])

\* The runs without a repeat beyond the unroll bound are as C34 says; in
\* every run the length check is one and the indexes are within it.
C34_UnrolledRuns ==
    NormalCase =>
        \A i \in JoinedRuns :
            /\ OneLengthCheck(em.joined[i])
            /\ IndexesWithin(em.joined[i])
            /\ AllChainable(em.joined[i]) => AdvancedByRequired(em.joined[i])

\* A run with a repeat beyond the unroll bound leaves sliceStaticPos short
\* of s + R by the count of the repeat.
C34_LongRepeatNotCounted ==
    NormalCase =>
        \A i \in JoinedRuns :
            LET x == em.joined[i]
                long == {k \in x.first..(x.exclusiveEnd - 1) : ~Chainable(ChildNode(x.node, k))}
            IN  x.staticPosOnReturn + SumSeq([k \in 1..(x.exclusiveEnd - x.first) |->
                     IF x.first + k - 1 \in long THEN ChildNode(x.node, x.first + k - 1).M
                     ELSE 0])
                  = x.staticPosOnEntry + x.requiredLength

\* The children of concatenation id for which code was written, in the
\* order in which it was written.
ChildrenOf(id) ==
    LET own == SelectSeq(em.children, LAMBDA c : c.node = id)
    IN  [k \in 1..Len(own) |-> own[k].child]

\* C35: a concatenation emits matching code for every child exactly once
\* and in child order, whatever the joinable-range and the
\* case-insensitive-prefix helper return: the child index only moves
\* forward, no child is skipped and none is emitted twice.
C35_ChildrenInOrder ==
    NormalCase =>
        \A i \in ConcatenationExits :
            ChildrenOf(em.exits[i].node)
                = [k \in 1..Len(em.nodes[em.exits[i].node].Children) |-> k]

\* A concatenation was emitted whose joinable run stops early at a repeat
\* beyond the unroll bound and goes on after it, and which has a
\* case-insensitive string that consumes two children.
C35_Witness ==
    /\ NormalCase
    /\ \E i \in JoinedRuns :
          LET x == em.joined[i]
          IN  /\ ~AllChainable(x)
              /\ x.exclusiveEnd - x.first = 3
              /\ \E j \in LinesOf(x) :
                    /\ em.body[j].cmp = "!StartsWithIgnoreCase"
                    /\ Len(em.body[j].args) = 2
                    /\ j > x.linesOnEntry + 4
              /\ ChildrenOf(x.node) = <<1, 2, 3>>

(***************************************************************************)
(* Alternations emitted with the general strategy.                         *)
(***************************************************************************)
GeneralBranches == 1..Len(em.branches)

\* The branch of the same alternation that comes after branch k; the line
\* of the body at which a label is written.
BranchAfter(k) ==
    CHOOSE j \in GeneralBranches :
        /\ em.branches[j].node = em.branches[k].node
        /\ em.branches[j].branch = em.branches[k].branch + 1

LabelLine(label) == CHOOSE i \in LabelIndexes(em.body, label) : TRUE

\* The lines written after the label of the next branch: pos, slice and,
\* where the alternation records it, the crawl position are put back.
ResetLines(x) ==
    <<Assign("=", "pos", x.startingPos), Assign("=", "slice", "r.Runtext[pos:]")>>
    \o (IF x.startingCapturePos = "" THEN <<>>
        ELSE <<Stmt("uncapture", x.startingCapturePos, "")>>)

ResetWritten(k) ==
    LET x == em.branches[k]
        at == LabelLine(x.nextBranch)
    IN  /\ Cardinality(LabelIndexes(em.body, x.nextBranch)) = 1
        /\ SubSeq(em.body, at + 1, at + Len(ResetLines(x))) = ResetLines(x)
        /\ em.branches[BranchAfter(k)].staticPosOnEntry = x.startingSliceStaticPos
        /\ em.branches[BranchAfter(k)].linesOnEntry = at + Len(ResetLines(x)) + 1

\* Where a failure of the branch goes: the next branch, and from the last
\* branch the doneLabel with which the alternation was entered.
FailureGoesOn(k) ==
    LET x == em.branches[k]
        calls0 == {i \in AlternationExits : em.exits[i].node = x.node}
    IN  /\ x.doneLabelOnEntry = IF x.nextBranch = "" THEN x.originalDoneLabel ELSE x.nextBranch
        /\ \A i \in calls0 : em.exits[i].doneLabelOnEntry = x.originalDoneLabel
        /\ x.branch = 0 => x.staticPosOnEntry = x.startingSliceStaticPos

\* What running the reset lines of branch k does to the run r.
RECURSIVE ExecutedAll(_, _)
ExecutedAll(r, lines) ==
    IF lines = <<>> \/ r.status # "running" THEN r
    ELSE ExecutedAll(Executed(r, Head(lines)), Tail(lines))

\* The ends of the matches of node id that begin at position p of the
\* input, in the order in which a backtracking matcher finds them: a
\* repeat gives the longest first, an alternation the matches of its
\* branches in branch order, an atomic group the first only.
RunOfChar(input, p, ch) ==
    LET stops == {k \in 0..(Len(input) - p) : k = Len(input) - p \/ input[p + k + 1] # ch}
    IN  MinOf(stops)

RECURSIVE Flat(_)
Flat(seqs) == IF seqs = <<>> THEN <<>> ELSE Head(seqs) \o Flat(Tail(seqs))

RECURSIVE Ends(_, _, _, _)
Ends(nodes, id, input, p) ==
    LET node == nodes[id]
        kid(i) == node.Children[i]
    IN  CASE node.T = "One" -> IF LiteralAt(input, p, <<node.Ch>>) THEN <<p + 1>> ELSE <<>>
          [] node.T = "Multi" ->
                 IF LiteralAt(input, p, node.Str) THEN <<p + Len(node.Str)>> ELSE <<>>
          [] node.T = "Oneloop" ->
                 LET most == Min(node.N, RunOfChar(input, p, node.Ch))
                 IN  IF most < node.M THEN <<>>
                     ELSE [k \in 1..(most - node.M + 1) |-> p + most - k + 1]
          [] node.T = "Capture" -> Ends(nodes, kid(1), input, p)
          [] node.T = "Atomic" ->
                 Then(Ends(nodes, kid(1), input, p), LAMBDA e :
                      IF e = <<>> THEN <<>> ELSE <<Head(e)>>)
          [] node.T = "Alternate" ->
                 Flat([i \in 1..Len(node.Children) |-> Ends(nodes, kid(i), input, p)])
          [] node.T = "Concatenate" ->
                 Then(Ends(nodes, kid(1), input, p), LAMBDA e1 :
                 Then(Flat([i \in 1..Len(e1) |-> Ends(nodes, kid(2), input, e1[i])]),
                      LAMBDA e2 :
                 IF Len(node.Children) = 2 THEN e2
                 ELSE Flat([i \in 1..Len(e2) |-> Ends(nodes, kid(3), input, e2[i])])))

\* The expression has no loop around the alternation: the alternation is
\* entered once, at the position the match starts at.
EnteredOnce == \A i \in 1..Len(em.nodes) : em.nodes[i].T # "Loop"

ExpectedEnds == Ends(em.nodes, em.nodes[1].Children[1], run.input, run.start)

\* The run is about to enter the reset section of a branch.
AtReset(k) ==
    /\ run.status = "running"
    /\ em.branches[k].nextBranch # ""
    /\ run.at = LabelLine(em.branches[k].nextBranch)

ResetRestores(k) ==
    LET r == ExecutedAll(run, ResetLines(em.branches[k]))
    IN  /\ r.status = "running"
        /\ r.locals["pos"] = run.start
        /\ r.slice = run.start
        /\ r.crawl = <<>>

\* C36: in an alternation emitted with the general strategy the branches
\* are attempted in index order; a branch starts only after the one
\* before it has failed, backtracking inside it included, and it starts
\* with pos put back to where the alternation started, slice taken again
\* from there, the static offset the alternation was entered with, and the
\* captures undone down to the crawl position at the alternation's start;
\* a failure of the last branch goes to the doneLabel of the entry.  So a
\* run ends as the ordered choice says.
C36_BranchOrder ==
    NormalCase =>
        /\ \A k \in GeneralBranches :
              /\ FailureGoesOn(k)
              /\ em.branches[k].nextBranch # "" => ResetWritten(k)
              /\ EnteredOnce /\ AtReset(k) => ResetRestores(k)
        /\ EnteredOnce =>
              /\ run.status = "matched" =>
                    ExpectedEnds # <<>> /\ run.textpos = Head(ExpectedEnds)
              /\ run.status = "failed" => ExpectedEnds = <<>>
              /\ run.status \in {"idle", "running", "matched", "failed"}

\* The branches of alternations that can be backtracked into, and of these
\* the ones that keep the branch in a local, and on the stack.
BacktrackedBranches == {k \in GeneralBranches : ~em.branches[k].isAtomic}

LocalBranches == {k \in BacktrackedBranches : em.branches[k].currentBranch # ""}

StackedBranches == BacktrackedBranches \ LocalBranches

\* What a branch that matched records: its index, in the local, or pushed
\* with the starting position and the crawl position.
RecordOfBranch(x, index) ==
    IF x.currentBranch # "" THEN AssignConst("=", x.currentBranch, x.branch)
    ELSE IF x.startingCapturePos # ""
    THEN Ln("push", "r.StackPush3", "", "", 0, 0,
            <<index, x.startingPos, x.startingCapturePos>>)
    ELSE Ln("push", "r.StackPush2", "", "", 0, 0, <<index, x.startingPos>>)

\* The backtracking section: after its label the pushed values are popped
\* and the switch on the branch has, for this branch, a case that goes to
\* the doneLabel the branch's child left.
SwitchLine(x) ==
    MinOf({j \in LabelLine(x.backtrackLabel)..Len(em.body) : em.body[j].op = "switch"})

CaseLine(x) ==
    MinOf({j \in SwitchLine(x)..Len(em.body) :
              em.body[j] = Ln("case", "int", "", "", x.branch, 0, <<>>)})

Dispatched(k) ==
    LET x == em.branches[k]
        at == LabelLine(x.backtrackLabel)
        pops == IF x.currentBranch # "" THEN <<>>
                ELSE IF x.startingCapturePos # ""
                THEN <<Assign("=", x.startingCapturePos, "r.StackPop()"),
                       Assign("=", x.startingPos, "r.StackPop()")>>
                ELSE <<Assign("=", x.startingPos, "r.StackPop()")>>
        goes == em.body[CaseLine(x) + 1]
        leaves == em.body[CaseLine(x) + (IF em.expressionHasCaptures THEN 2 ELSE 1)]
    IN  /\ Cardinality(LabelIndexes(em.body, x.backtrackLabel)) = 1
        /\ SubSeq(em.body, at + 1, at + Len(pops)) = pops
        /\ SwitchLine(x) = at + Len(pops) + 1
        /\ em.body[SwitchLine(x)].a
              = (IF x.currentBranch # "" THEN x.currentBranch ELSE "r.StackPop()")
        /\ IF x.labelMap = em.topLevelDoneLabel THEN leaves.op = "return" /\ leaves.b # ""
           ELSE goes = Goto(x.labelMap)
        \* the branch's last backtracking point, or else the next branch
        /\ \/ x.labelMap = x.doneLabelOnEntry
           \/ LabelIndexes(em.body, x.labelMap) \subseteq (x.linesOnEntry + 1)..x.linesOnReturn
        /\ \A i \in AlternationExits :
              em.exits[i].node = x.node => em.exits[i].doneLabel = x.backtrackLabel

\* The backtracking section has run: it went to where the branch recorded
\* last resumes, which is not in or before an earlier branch.
Redispatched(k) ==
    LET x == em.branches[k]
    IN  /\ x.currentBranch # ""
        /\ run.status = "running"
        /\ run.from = LabelLine(x.backtrackLabel)
        /\ run.locals[x.currentBranch] = x.branch
        => /\ run.at = LabelLine(x.labelMap)
           /\ run.at > x.linesOnEntry

\* C37: when what follows a non-atomic alternation emitted with the
\* general strategy fails, control enters the alternation's backtrack
\* label, which dispatches on the index i of the branch that matched last
\* (kept in a local outside loops, pushed as the integer i with the
\* starting position and the crawl position inside loops) and jumps to
\* labelMap[i]: branch i's last backtracking point, or else the next
\* branch; no earlier branch is tried again.  On return doneLabel is the
\* backtrack label, and the doneLabel of the entry when atomic.
C37_Reentry ==
    NormalCase =>
        /\ \A k \in BacktrackedBranches :
              /\ em.body[em.branches[k].linesOnReturn + 1]
                    = RecordOfBranch(em.branches[k], ToString(em.branches[k].branch))
              /\ Dispatched(k)
              /\ Redispatched(k)
        /\ \A k \in GeneralBranches \ BacktrackedBranches :
              \A i \in AlternationExits :
                 em.exits[i].node = em.branches[k].node
                    => em.exits[i].doneLabel = em.branches[k].originalDoneLabel
        /\ run.status # "unsupported"

\* Outside loops re-entry is as C37 says.
C37_BranchInLocal ==
    NormalCase =>
        /\ \A k \in LocalBranches :
              /\ em.body[em.branches[k].linesOnReturn + 1]
                    = RecordOfBranch(em.branches[k], ToString(em.branches[k].branch))
              /\ Dispatched(k)
              /\ Redispatched(k)
        /\ \A k \in GeneralBranches \ BacktrackedBranches :
              \A i \in AlternationExits :
                 em.exits[i].node = em.branches[k].node
                    => em.exits[i].doneLabel = em.branches[k].originalDoneLabel
        /\ StackedBranches = {} => run.status # "unsupported"

\* Inside a loop the backtracking section is as C37 says, but what a
\* branch pushes for its index is string(i), the character with code
\* point i, and a run that reaches the push stops there: the statement is
\* not one that compiles.
C37_RunePushed ==
    NormalCase =>
        /\ \A k \in StackedBranches :
              /\ em.body[em.branches[k].linesOnReturn + 1]
                    = RecordOfBranch(em.branches[k], RuneString(em.branches[k].branch))
              /\ Dispatched(k)
        /\ run.status = "unsupported" =>
              \E k \in StackedBranches : run.at = em.branches[k].linesOnReturn + 1

\* A branch that captures matched after a character, what follows the
\* alternation failed, and the run is about to enter the reset section of
\* the next branch with the capture still on the crawl.
C36_Witness ==
    /\ NormalCase
    /\ EnteredOnce
    /\ \E k \in GeneralBranches :
          /\ AtReset(k)
          /\ em.branches[k].startingCapturePos # ""
          /\ em.branches[k].startingSliceStaticPos > 0
          /\ run.crawl # <<>>
          /\ run.sections > 2

(***************************************************************************)
(* Two emissions of one tree.                                              *)
(***************************************************************************)
\* The tree below node id, without the places of the nodes in the sequence.
RECURSIVE Shape(_, _)
Shape(nodes, id) ==
    [nodes[id] EXCEPT !.Children = [i \in 1..Len(@) |-> Shape(nodes, nodes[id].Children[i])]]

\* The text of a piece of output: the comments written for a node read the
\* same wherever the node is kept.
Text(lines) ==
    LET marks(i) == lines[i].op = "comment" /\ lines[i].a = "Node"
    IN  [i \in 1..Len(lines) |->
            IF marks(i) \/ (i > 1 /\ marks(i - 1) /\ lines[i].op = "comment")
            THEN [lines[i] EXCEPT !.n = 0]
            ELSE lines[i]]

\* What the first and the second call of emitExecute wrote.
FirstProcedure == SubSeq(em.real, 1, em.base)

EmittedTwice == pc = "returned" /\ calls = 2

\* C39: emission is repeatable.  Emitting the same tree twice with the same
\* analysis gives the same procedure text; an emission leaves the tree as
\* it was and carries nothing over to the next one.
C39_Repeatable ==
    /\ pc = "returned" => Shape(em.nodes, 1) = Shape(em.treeOnConstruction, 1)
    /\ EmittedTwice => Text(Procedure) = Text(FirstProcedure)

\* An emission that leaves the tree as it was is followed by one that
\* writes the same text, and every name and declaration starts afresh.
C39_RepeatableOnSameTree ==
    EmittedTwice /\ Shape(em.treeOnEntry, 1) = Shape(em.treeOnConstruction, 1)
        => /\ Text(Procedure) = Text(FirstProcedure)
           /\ em.additionalDeclarations = <<>>

\* The emissions that change the tree are those of an alternation emitted
\* as a switch with a branch that is a concatenation beginning with its
\* starting literal: the literal is replaced by an Empty node.
ShavedBranches ==
    {id \in 1..Len(em.treeOnEntry) :
        /\ em.treeOnEntry[id].T = "Concatenate"
        /\ em.nodes[em.nodes[id].Children[1]].T = "Empty"
        /\ em.treeOnEntry[em.treeOnEntry[id].Children[1]].T \in {"One", "Set", "Multi"}}

C39_TreeChangedBySwitch ==
    pc = "returned" /\ Shape(em.nodes, 1) # Shape(em.treeOnEntry, 1)
        => /\ ShavedBranches # {}
           /\ \E i \in AlternationExits :
                 \E j \in OwnLines(i) : em.body[j].op = "switch" /\ em.body[j].a # "r.StackPop()"

(***************************************************************************)
(* Declarations of the locals of the emitted procedure.                    *)
(***************************************************************************)
\* The lines of the procedure that came from additionalDeclarations, and
\* the lines that declare a name: such a line, or a short or var
\* declaration in the body.
DeclarationLines == {i \in 1..Len(Procedure) : Procedure[i].op \in {"dec", "text"}}

DeclarationsOf(name) ==
    {i \in 1..Len(Procedure) :
        \/ Procedure[i].op = "dec" /\ name \in RangeOf(Procedure[i].args)
        \/ Procedure[i].op \in {":=", "var"} /\ Procedure[i].a = name}

\* The locals the procedure assigns, pushes or pops into.
AssignedLocals ==
    {Procedure[i].a : i \in {j \in 1..Len(Procedure) : Procedure[j].op \in AssignmentOps}}
        \ {"r.Runtextpos"}

\* An entry of additionalDeclarations is a complete declaration: of names
\* that were reserved, none of them a format verb left unfilled.
WellFormed(line) ==
    /\ line.op = "dec"
    /\ line.args # <<>>
    /\ \A k \in 1..Len(line.args) : line.args[k] \in AssignedLocals \cup {"stackpos"}

\* C40: every local that the emitted body assigns or reads is declared
\* exactly once, by one well-formed entry of additionalDeclarations or by
\* one short declaration in the body; every entry of
\* additionalDeclarations is a complete declaration of a reserved name,
\* and no entry is there twice when a construct occurs more than once.
C40_DeclaredOnce ==
    NormalCase =>
        /\ \A i \in DeclarationLines : WellFormed(Procedure[i])
        /\ \A i, j \in DeclarationLines : Procedure[i] = Procedure[j] => i = j
        /\ \A n \in AssignedLocals : Cardinality(DeclarationsOf(n)) = 1

\* The names reserveName gives for a prefix.
Numbered(prefix) == {prefix} \cup {prefix \o ToString(k) : k \in 1..Len(em.nodes)}

\* The locals that are not declared once are stackpos (declared by every
\* atomic group, and by nothing else), the stack position an atomic group
\* saves, the crawl position of a single-character loop, and the iteration
\* local of an atomic loop that counts one character at a time; these are
\* not declared at all.
C40_UndeclaredLocals ==
    NormalCase =>
        \A n \in AssignedLocals :
            Cardinality(DeclarationsOf(n)) # 1 =>
                \/ n = "stackpos"
                \/ /\ DeclarationsOf(n) = {}
                   /\ n \in Numbered("atomic_stackpos") \cup Numbered("charloop_capture_pos")
                            \cup Numbered("iteration")

\* The entries that are not declarations are the two that a
\* single-character loop appends for its crawl position: the format
\* "%s := 0", not filled in, and the bare name.  The entry that is there
\* twice is the declaration of stackpos.
C40_EntriesOfCharLoop ==
    NormalCase =>
        /\ \A i \in DeclarationLines :
              ~WellFormed(Procedure[i]) =>
                  \/ Procedure[i] = Dec("%s")
                  \/ /\ Procedure[i].op = "text"
                     /\ Procedure[i].a \in Numbered("charloop_capture_pos")
        /\ \A i, j \in DeclarationLines :
              Procedure[i] = Procedure[j] /\ i # j =>
                  Procedure[i] = Dec("stackpos")

====
